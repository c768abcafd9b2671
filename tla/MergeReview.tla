------------------------------ MODULE MergeReview ------------------------------
(* Merge review: MergeReviewPage with its query cache and mutations, and    *)
(* MergeReviewService, whose operations are transactions that read the      *)
(* candidate, then its golden record, and commit later.  Another reviewer    *)
(* calls the same service; the page has no button to split a record.        *)
(* A cache entry keeps the rows of one status filter, whether it ever had   *)
(* any, whether they are invalidated, and the one request for them that     *)
(* counts.                                                                  *)
EXTENDS Integers, FiniteSetsExt, Workbench

CONSTANTS
  PairIds,           \* pairs, numbered in the order of the lists
  Golden,            \* golden records
  goldenOf,          \* [PairIds -> Golden \cup {NoGolden}]
  NoGolden,          \* a candidate of the engine refers to no golden record
  Filters,           \* the status filters looked at; "ALL" is one of the page
  MaxCalls, MaxLosses   \* bounds: what reviewers do, requests that fail

ASSUME ReviewAssumption ==
  /\ PairIds \subseteq Nat \ {0} /\ NoGolden \notin Golden
  /\ goldenOf \in [PairIds -> Golden \cup {NoGolden}]
  /\ Filters \subseteq {"PENDING", "ACCEPTED", "REJECTED", "ALL"} /\ "PENDING" \in Filters
  /\ MaxCalls \in Nat

VARIABLES
  fusion,            \* the page: [filter, chosen]; chosen is 0 for none
  pairs,             \* [Filters -> [rows, loaded, stale, req, seen]], the query cache
  deciding,          \* [Reviewers -> a decision and how far it came]
  standing,          \* server: status of the candidates
  records,           \* server: [Golden -> [version, sources]]
  fused,             \* server: provenance entries MERGE_ACCEPT of a candidate
  alone,             \* server: records that a split made golden records of their own
  told,              \* history: candidates the page was told it has decided
  spared,            \* history: filters whose list was read before the last decision,
                     \* and is under way since
  overtaken,         \* history: filters whose rows came that way
  calls2, losses     \* bounds used up

reviewVars == <<fusion, pairs, deciding, standing, records, fused, alone, told, spared, overtaken, calls2, losses>>
serverVars == <<standing, records, fused, alone>>
history == <<told, spared, overtaken>>

PairStatuses == {"PENDING", "ACCEPTED", "REJECTED"}
Reviewers == {"console", "other"}
AtRest == [at |-> "rest", op |-> "none", pair |-> 0, copy |-> [version |-> 0, sources |-> {}]]
NoPairs == [c \in {} |-> "PENDING"]

ReviewInit ==
  /\ fusion = [filter |-> "PENDING", chosen |-> 0]
  /\ pairs = [f \in Filters |-> [rows |-> NoPairs, loaded |-> FALSE, stale |-> TRUE, seen |-> NoPairs,
                                 req |-> IF f = "PENDING" THEN "asked" ELSE "none"]]
  /\ deciding = [r \in Reviewers |-> AtRest]
  /\ standing = [c \in PairIds |-> "PENDING"]
  /\ records = [g \in Golden |-> [version |-> 0, sources |-> {0}]]
  /\ fused = [c \in PairIds |-> 0] /\ alone = {} /\ calls2 = 0 /\ losses = 0
  /\ told = {} /\ spared = {} /\ overtaken = {}

Call2 == calls2 < MaxCalls /\ calls2' = calls2 + 1

(* ------------------------------- the lists ------------------------------ *)
BugListed(f) == [c \in PairIds |-> standing[c]]

ListedPairs(f) == LET shown == {c \in PairIds : f \in {"ALL", standing[c]}}
             IN  [c \in shown |-> standing[c]]

\* activeCandidate: the selected one if it is in the list, else the first.
ActivePair ==
  LET rows == pairs[fusion.filter].rows
  IN  IF fusion.chosen \in DOMAIN rows THEN fusion.chosen
      ELSE IF DOMAIN rows = {} THEN 0 ELSE Min(DOMAIN rows)

SelectPair(c) ==
  /\ c \in DOMAIN pairs[fusion.filter].rows /\ Call2 /\ fusion' = [fusion EXCEPT !.chosen = c]
  /\ UNCHANGED <<pairs, deciding, serverVars, history, losses>>

\* An entry that is invalidated, or older than its stale time, is fetched
\* when its filter is shown; one that is being fetched is left alone.
FilterBy(f) ==
  /\ f # fusion.filter /\ Call2 /\ fusion' = [fusion EXCEPT !.filter = f]
  /\ \E old \in BOOLEAN :
       pairs' = IF pairs[f].req = "none" /\ (pairs[f].stale \/ old)
                THEN [pairs EXCEPT ![f].req = "asked"] ELSE pairs
  /\ UNCHANGED <<deciding, serverVars, history, losses>>

RefreshPairs ==
  /\ pairs[fusion.filter].req = "none" /\ Call2
  /\ pairs' = [pairs EXCEPT ![fusion.filter].req = "asked"]
  /\ UNCHANGED <<fusion, deciding, serverVars, history, losses>>

ServePairs(f) ==
  /\ pairs[f].req = "asked" /\ pairs' = [pairs EXCEPT ![f].req = "served", ![f].seen = ListedPairs(f)]
  /\ UNCHANGED <<fusion, deciding, serverVars, history, calls2, losses>>

PairsArrive(f) ==
  /\ pairs[f].req = "served"
  /\ pairs' = [pairs EXCEPT ![f] =
       [rows |-> @.seen, loaded |-> TRUE, stale |-> FALSE, req |-> "none", seen |-> NoPairs]]
  /\ overtaken' = IF f \in spared THEN overtaken \cup {f} ELSE overtaken \ {f}
  /\ spared' = spared \ {f}
  /\ UNCHANGED <<fusion, deciding, serverVars, told, calls2, losses>>

Lost == losses < MaxLosses /\ losses' = losses + 1

\* The rows there are stay, invalidated.
PairsLost(f) ==
  /\ pairs[f].req # "none" /\ Lost
  /\ pairs' = [pairs EXCEPT ![f] = [@ EXCEPT !.stale = TRUE, !.req = "none", !.seen = NoPairs]]
  /\ spared' = spared \ {f}
  /\ UNCHANGED <<fusion, deciding, serverVars, told, overtaken, calls2>>

(* ------------------------------- deciding ------------------------------- *)
Called(r, op, c) ==
  /\ Call2 /\ deciding[r] = AtRest
  /\ deciding' = [deciding EXCEPT ![r] = [AtRest EXCEPT !.at = "sent", !.op = op, !.pair = c]]
  /\ UNCHANGED <<fusion, pairs, serverVars, history, losses>>

\* The buttons of the active pair, as the cache knows it.
Decide(op) ==
  /\ op \in {"accept", "reject"} /\ ActivePair \in DOMAIN pairs[fusion.filter].rows
  /\ pairs[fusion.filter].rows[ActivePair] = "PENDING" /\ Called("console", op, ActivePair)

OtherCalls(op, c) == Called("other", op, c)

Fails(r) == deciding' = [deciding EXCEPT ![r].at = "failed"]

\* The two conflicts of a split.
MayExtract(c) ==
  /\ goldenOf[c] # NoGolden
  /\ c \in records[goldenOf[c]].sources /\ Cardinality(records[goldenOf[c]].sources) > 1

BugMayProceed(op, c) == op = "accept" \/ standing[c] = "PENDING"

\* ensurePending.
MayProceed(op, c) == standing[c] = "PENDING"

\* loadCandidate of acceptCandidate and of rejectCandidate.
ReadPair(r) ==
  LET d == deciding[r]
  IN  /\ d.at = "sent" /\ d.op \in {"accept", "reject"}
      /\ IF ~MayProceed(d.op, d.pair) THEN Fails(r)
         ELSE deciding' = [deciding EXCEPT ![r].at = IF d.op = "accept" THEN "checked" ELSE "read"]
      /\ UNCHANGED <<fusion, pairs, serverVars, history, calls2, losses>>

\* loadGoldenRecord, a statement of its own: it sees what was committed since
\* the candidate was read.
ReadGolden(r) ==
  LET d == deciding[r]
  IN  /\ (d.op = "accept" /\ d.at = "checked") \/ (d.op = "split" /\ d.at = "sent")
      /\ IF goldenOf[d.pair] = NoGolden \/ (d.op = "split" /\ ~MayExtract(d.pair)) THEN Fails(r)
         ELSE deciding' = [deciding EXCEPT ![r] =
                [d EXCEPT !.at = "read", !.copy = records[goldenOf[d.pair]]]]
      /\ UNCHANGED <<fusion, pairs, serverVars, history, calls2, losses>>

\* What acceptCandidate and splitGoldenRecord save, made from the copy they
\* read: the second record of the pair joins the golden record, or leaves it.
MergedSources(op, c, sources) == IF op = "accept" THEN sources \cup {c} ELSE sources \ {c}

BugSameVersion(d) == TRUE

\* A golden record is versioned; a candidate is not.
SameVersion(d) == records[goldenOf[d.pair]].version = d.copy.version

CommitReject(r) ==
  LET d == deciding[r]
  IN  /\ d.at = "read" /\ d.op = "reject" /\ standing' = [standing EXCEPT ![d.pair] = "REJECTED"]
      /\ deciding' = [deciding EXCEPT ![r].at = "done"]
      /\ UNCHANGED <<fusion, pairs, records, fused, alone, history, calls2, losses>>

CommitGolden(r) ==
  LET d == deciding[r]
      g == goldenOf[d.pair]
  IN  /\ d.at = "read" /\ d.op \in {"accept", "split"} /\ SameVersion(d)
      /\ records' = [records EXCEPT ![g] =
           [version |-> d.copy.version + 1, sources |-> MergedSources(d.op, d.pair, d.copy.sources)]]
      /\ IF d.op = "accept"
         THEN /\ standing' = [standing EXCEPT ![d.pair] = "ACCEPTED"]
              /\ fused' = [fused EXCEPT ![d.pair] = @ + 1] /\ alone' = alone
         ELSE alone' = alone \cup {d.pair} /\ UNCHANGED <<standing, fused>>
      /\ deciding' = [deciding EXCEPT ![r].at = "done"]
      /\ UNCHANGED <<fusion, pairs, history, calls2, losses>>

CommitRefused(r) ==
  /\ deciding[r].at = "read" /\ deciding[r].op # "reject" /\ ~SameVersion(deciding[r]) /\ Fails(r)
  /\ UNCHANGED <<fusion, pairs, serverVars, history, calls2, losses>>

\* invalidateQueries goes on to refetch what is shown, and only a query that
\* has data has its request dropped for a new one: a first load, and what is
\* not shown, is left to arrive, and counts as fresh when it does.
LeftAlone(f) == f # fusion.filter \/ (pairs[f].req # "none" /\ ~pairs[f].loaded)

BugInvalidated == [f \in Filters |->
  [pairs[f] EXCEPT !.stale = TRUE, !.req = IF f = fusion.filter /\ @ = "none" THEN "asked" ELSE @]]

Invalidated == [f \in Filters |->
  IF LeftAlone(f) THEN [pairs[f] EXCEPT !.stale = TRUE]
  ELSE [pairs[f] EXCEPT !.stale = TRUE, !.req = "asked", !.seen = NoPairs]]

DecisionArrives(r) ==
  /\ deciding[r].at = "done" /\ deciding' = [deciding EXCEPT ![r] = AtRest]
  /\ IF r = "console"
     THEN /\ pairs' = Invalidated /\ told' = told \cup {deciding[r].pair} /\ overtaken' = overtaken
          /\ spared' = {f \in Filters : pairs[f].req = "served" /\ LeftAlone(f)}
     ELSE UNCHANGED <<pairs, history>>
  /\ UNCHANGED <<fusion, serverVars, calls2, losses>>

\* onError only raises a toast: the list is not fetched again.
StillDeciding(r) == AtRest

DecisionFails(r) ==
  /\ deciding[r].at = "failed" /\ deciding' = [deciding EXCEPT ![r] = StillDeciding(r)]
  /\ UNCHANGED <<fusion, pairs, serverVars, history, calls2, losses>>

\* The answer of a decision that was taken is lost.
DecisionLost(r) ==
  /\ deciding[r].at = "done" /\ Lost /\ deciding' = [deciding EXCEPT ![r] = StillDeciding(r)]
  /\ UNCHANGED <<fusion, pairs, serverVars, history, calls2>>

Deciding(r) ==
  \/ ReadPair(r) \/ ReadGolden(r) \/ CommitReject(r) \/ CommitGolden(r) \/ CommitRefused(r) \/ DecisionArrives(r)
  \/ DecisionFails(r) \/ DecisionLost(r)

ReviewNext ==
  \/ RefreshPairs
  \/ \E f \in Filters : FilterBy(f) \/ ServePairs(f) \/ PairsArrive(f) \/ PairsLost(f)
  \/ \E r \in Reviewers : Deciding(r)
  \/ \E c \in PairIds : SelectPair(c) \/ \E op \in {"accept", "reject", "split"} : OtherCalls(op, c)
  \/ \E op \in {"accept", "reject"} : Decide(op)

ReviewSpec == ReviewInit /\ [][ReviewNext]_reviewVars

\* The service answers every decision.
ReviewFairness == \A r \in Reviewers : WF_reviewVars(inUse = "review" /\ Deciding(r))

(* --------------------- waiting, and what is shown ----------------------- *)
\* The buttons of the active pair are disabled.
ReviewWaits == deciding["console"] # AtRest

(* ------------------------------ properties ------------------------------ *)
ReviewTypeOK ==
  /\ fusion.filter \in Filters /\ fusion.chosen \in PairIds \cup {0}
  /\ \A f \in Filters :
       /\ DOMAIN pairs[f].rows \subseteq PairIds /\ pairs[f].req \in {"none", "asked", "served"}
       /\ f # "ALL" => \A c \in DOMAIN pairs[f].rows : pairs[f].rows[c] = f
  /\ standing \in [PairIds -> PairStatuses] /\ alone \subseteq PairIds /\ told \subseteq PairIds
  /\ spared \subseteq Filters /\ overtaken \subseteq Filters
  /\ \A g \in Golden : records[g].version <= MaxCalls /\ 0 \in records[g].sources
  /\ \A r \in Reviewers : deciding[r].at = "read" => goldenOf[deciding[r].pair] # NoGolden
                                                     \/ deciding[r].op = "reject"

\* An accepted pair was merged, whoever decides at the same time; it is
\* merged again only by a reviewer who had found it pending before.
AcceptedIsMerged ==
  \A c \in PairIds :
    fused[c] <= Cardinality(Reviewers) /\ (standing[c] = "ACCEPTED" => fused[c] >= 1)

\* No merge and no split is lost: a merged record is in the golden record it
\* was merged into or in the one that a split made of it, and in both only if
\* it was merged again after the split.  The version of the golden record
\* sees to it, although a candidate has none.
HeldOnce ==
  \A c \in PairIds : goldenOf[c] # NoGolden =>
    LET held == c \in records[goldenOf[c]].sources
    IN  /\ fused[c] >= 1 => held \/ c \in alone
        /\ held /\ c \in alone => fused[c] >= 2

\* A list that is fetched and not invalidated does not offer again what the
\* page was told it has decided, also when the request for it was under way,
\* unless the cache let it arrive: a first load, or a list that was not shown,
\* read before the decision and answered after it.
ToldIsShown ==
  \A f \in Filters \ overtaken : ~pairs[f].stale =>
    \A c \in told \cap DOMAIN pairs[f].rows : pairs[f].rows[c] # "PENDING"

\* Decisions on pairs hold: on the records, and in what the page shows.
DecisionsHold == AcceptedIsMerged /\ HeldOnce /\ ToldIsShown
=============================================================================

-------------------------------- MODULE Explorer --------------------------------
(* The entity explorer: ExplorerPage with its SearchBar and                 *)
(* FacetFilterSidebar.  The text is debounced, every change of what is      *)
(* searched aborts the search under way, and an effect runs in the step     *)
(* that changes what it depends on.                                         *)
EXTENDS Integers, Lists, Sequences, Workbench

CONSTANTS
  Texts,            \* what is typed or searched; "" is one
  Facets,           \* names of entity types
  namesOf,          \* [Texts -> Seq(Texts)]: the canonical names a search finds
  contains,         \* [Texts -> SUBSET Texts]: the names that contain a text
  Totals,           \* how many pages an answer may tell of
  MaxFinds          \* bound: what the user does

ASSUME ExplorerAssumption ==
  /\ "" \in Texts /\ Totals \subseteq Nat \ {0} /\ MaxFinds \in Nat
  /\ \A t \in Texts : namesOf[t] \in Seq(Texts \ {""})

VARIABLES
  find,             \* [input, query, types, page]
  typing,           \* the timer of the debounce runs
  searches,         \* searches not settled: [key, at, mine]; mine is the last one's
  found,            \* searchData, with the key it answers; or NoFind
  loading, failed,  \* loading, error
  url,              \* the query and page of the address
  suggest,          \* SearchBar: [open, active]
  typesLoaded,            \* whether the entity types are loaded: "no", "asked", "yes"
  exporting,
  finds             \* bound used up

findVars == <<find, typing, searches, found, loading, failed, url, suggest, typesLoaded, exporting, finds>>

KeyOf(f) == [query |-> f.query, types |-> f.types, page |-> f.page]
NoFind == [key |-> KeyOf([query |-> "", types |-> {}, page |-> -1]), pages |-> 0]
Closed == [open |-> FALSE, active |-> -1]

\* The page is mounted: what the address says is searched at once, and the
\* timer runs as after a change of the text.
PageOpened(u) ==
  LET f == [input |-> u.query, query |-> u.query, types |-> {}, page |-> u.page]
  IN  /\ find' = f /\ typing' = TRUE
      /\ searches' = {[key |-> KeyOf(f), at |-> "asked", mine |-> TRUE]}
      /\ found' = NoFind /\ loading' = TRUE /\ failed' = FALSE /\ url' = u
      /\ suggest' = Closed /\ typesLoaded' = "asked" /\ exporting' = FALSE

ExplorerInit ==
  /\ find = [input |-> "", query |-> "", types |-> {}, page |-> 0]
  /\ typing = TRUE /\ searches = {[key |-> KeyOf(find), at |-> "asked", mine |-> TRUE]}
  /\ found = NoFind /\ loading = TRUE /\ failed = FALSE
  /\ url = [query |-> "", page |-> 0] /\ suggest = Closed /\ typesLoaded = "asked"
  /\ exporting = FALSE /\ finds = 0

Acts == finds < MaxFinds /\ finds' = finds + 1
Shows == ~loading /\ ~failed /\ found # NoFind

(* ------------------------------- searching ------------------------------ *)
BugSuperseded == {[s EXCEPT !.mine = FALSE] : s \in searches}

\* abort() ends a search, except one whose failure is already being handled.
Superseded == {[s EXCEPT !.mine = FALSE] : s \in {t \in searches : t.at = "failing"}}

BugRun(f) ==
  /\ searches' = Superseded \cup {[key |-> KeyOf(f), at |-> "asked", mine |-> TRUE]}
  /\ loading' = TRUE /\ failed' = FALSE /\ url' = [url EXCEPT !.query = f.query]

\* executeSearch, as far as its request.
Run(f) ==
  /\ searches' = Superseded \cup {[key |-> KeyOf(f), at |-> "asked", mine |-> TRUE]}
  /\ loading' = TRUE /\ failed' = FALSE /\ url' = [query |-> f.query, page |-> f.page]

\* The effect runs when the query or the page is another one, and whenever
\* the types were set.
Follow(f) ==
  /\ find' = f
  /\ IF KeyOf(f) # KeyOf(find) THEN Run(f) ELSE UNCHANGED <<searches, loading, failed, url>>

Searched(t) == [find EXCEPT !.query = t, !.page = 0]

DebounceEnds ==
  /\ typing /\ typing' = FALSE /\ Follow(Searched(find.input))
  /\ UNCHANGED <<found, suggest, typesLoaded, exporting, finds>>

SearchArrives(s) ==
  /\ s.at = "asked" /\ searches' = searches \ {s}
  /\ \E n \in Totals : found' = [key |-> s.key, pages |-> n]
  /\ loading' = (loading /\ ~s.mine)
  /\ UNCHANGED <<find, typing, failed, url, suggest, typesLoaded, exporting, finds>>

\* An error status, or no answer: apiFetch still works on it, up to renewing
\* the token and asking again.
SearchStumbles(s) ==
  /\ s.at = "asked" /\ searches' = (searches \ {s}) \cup {[s EXCEPT !.at = "failing"]}
  /\ UNCHANGED <<find, typing, found, loading, failed, url, suggest, typesLoaded, exporting, finds>>

\* Only an AbortError is passed over: the error is set whosever it is.
SearchFails(s) ==
  /\ s.at = "failing" /\ searches' = searches \ {s} /\ failed' = TRUE
  /\ loading' = (loading /\ ~s.mine)
  /\ UNCHANGED <<find, typing, found, url, suggest, typesLoaded, exporting, finds>>

RetrySearch ==
  /\ failed /\ Acts /\ Run(find)
  /\ UNCHANGED <<find, typing, found, suggest, typesLoaded, exporting>>

(* ------------------------------ the search bar -------------------------- *)
\* At most five names, without duplicates: the lists here are shorter.
Suggestions ==
  IF find.input = "" \/ found = NoFind THEN <<>>
  ELSE LET names == namesOf[found.key.query]
       IN  At(names, {i \in DOMAIN names : names[i] \in contains[find.input]})

Offered == suggest.open /\ Suggestions # <<>>

Type(t) ==
  /\ t # find.input /\ Acts
  /\ find' = [find EXCEPT !.input = t] /\ typing' = TRUE
  /\ suggest' = [open |-> TRUE, active |-> -1]
  /\ UNCHANGED <<searches, found, loading, failed, url, typesLoaded, exporting>>

\* The cross closes the list and, if the field had no focus, opens it.
ClearText ==
  /\ find.input # "" /\ Acts
  /\ find' = [find EXCEPT !.input = ""] /\ typing' = TRUE
  /\ \E o \in BOOLEAN : suggest' = [suggest EXCEPT !.open = o]
  /\ UNCHANGED <<searches, found, loading, failed, url, typesLoaded, exporting>>

\* The field gets the focus, a click lands outside, Escape is pressed.
OpenOrClose ==
  /\ Acts
  /\ \/ ~suggest.open /\ suggest' = [suggest EXCEPT !.open = TRUE]
     \/ suggest.open /\ suggest' = [suggest EXCEPT !.open = FALSE]
     \/ Offered /\ suggest' = Closed
  /\ UNCHANGED <<find, typing, searches, found, loading, failed, url, typesLoaded, exporting>>

\* Arrows wrap round, and up from no choice leads to the last but one; the
\* mouse marks any.
Mark ==
  LET n == Len(Suggestions)
  IN  /\ Offered /\ Acts
      /\ suggest' \in {[suggest EXCEPT !.active = i] :
           i \in {(suggest.active + 1) % n, (suggest.active - 1 + n) % n} \cup 0..(n - 1)}
      /\ UNCHANGED <<find, typing, searches, found, loading, failed, url, typesLoaded, exporting>>

\* onSearch: Enter in the field, or the button.
Submit ==
  /\ Acts /\ Follow(Searched(find.input))
  /\ suggest' = [suggest EXCEPT !.open = @ /\ ~Offered]
  /\ UNCHANGED <<typing, found, typesLoaded, exporting>>

\* A click on a suggestion, or Enter on the marked one.
Choose(i) ==
  LET t == Suggestions[i + 1]
      f == [Searched(t) EXCEPT !.input = t]
  IN  /\ Offered /\ Acts /\ typing' = (typing \/ t # find.input)
      /\ Follow(f)
      /\ suggest' = Closed
      /\ UNCHANGED <<found, typesLoaded, exporting>>

(* ------------------------- facets, pages, export ------------------------ *)
\* handleToggle and handleClearAll; a facet that counts none may be chosen.
SetTypes(ts) ==
  /\ typesLoaded = "yes" /\ Acts
  /\ (\E t \in Facets : ts \in {find.types \cup {t}, find.types \ {t}} /\ ts # find.types)
     \/ (ts = {} /\ find.types # {})
  /\ find' = [find EXCEPT !.types = ts, !.page = 0] /\ Run(find')
  /\ UNCHANGED <<typing, found, suggest, typesLoaded, exporting>>

\* The buttons are there when the results are, for the pages they told of.
TurnTo(p) ==
  /\ Shows /\ found.pages > 1 /\ Acts
  /\ p \in 0..(found.pages - 1) \/ (p = find.page - 1 /\ find.page # 0)
     \/ (p = find.page + 1 /\ find.page # found.pages - 1)
  /\ Follow([find EXCEPT !.page = p])
  /\ UNCHANGED <<typing, found, suggest, typesLoaded, exporting>>

TypesSettle ==
  /\ typesLoaded = "asked" /\ typesLoaded' \in {"yes", "no"}
  /\ UNCHANGED <<find, typing, searches, found, loading, failed, url, suggest, exporting, finds>>

ExportAll ==
  /\ ~exporting /\ Acts /\ exporting' = TRUE
  /\ UNCHANGED <<find, typing, searches, found, loading, failed, url, suggest, typesLoaded>>

\* The file is saved, or the failure logged.
ExportSettles ==
  /\ exporting /\ exporting' = FALSE
  /\ UNCHANGED <<find, typing, searches, found, loading, failed, url, suggest, typesLoaded, finds>>

\* The page is loaded again, or reached by its address.
Reopen == Acts /\ PageOpened(url)

ExplorerSettles == DebounceEnds \/ TypesSettle \/ ExportSettles

ExplorerNext ==
  \/ ExplorerSettles \/ RetrySearch \/ ClearText \/ OpenOrClose \/ Mark \/ Submit
  \/ ExportAll \/ Reopen
  \/ \E s \in searches : SearchArrives(s) \/ SearchStumbles(s) \/ SearchFails(s)
  \/ \E t \in Texts : Type(t)
  \/ \E i \in 0..(Len(Suggestions) - 1) : Choose(i)
  \/ \E ts \in SUBSET Facets : SetTypes(ts)
  \/ \E p \in 0..MaxFinds : TurnTo(p)

ExplorerSpec == ExplorerInit /\ [][ExplorerNext]_findVars

\* Timers fire and requests are answered.
ExplorerFairness ==
  /\ WF_findVars(inUse = "explorer" /\ ExplorerSettles)
  /\ WF_findVars(inUse = "explorer" /\ \E s \in searches : SearchArrives(s) \/ SearchFails(s))

(* --------------------- waiting, and what is shown ----------------------- *)
ExplorerWaits == loading \/ exporting

(* ------------------------------ properties ------------------------------ *)
ExplorerTypeOK ==
  /\ find.input \in Texts /\ find.query \in Texts /\ find.types \subseteq Facets
  /\ find.page \in 0..MaxFinds /\ typing \in BOOLEAN
  /\ \A s \in searches : s.at \in {"asked", "failing"}
  /\ loading = (\E s \in searches : s.mine)
  /\ url = [query |-> find.query, page |-> find.page]

(* The results on the page are those of the text in the field, the types    *)
(* checked and the page marked, as soon as neither the timer nor a search   *)
(* is running, in whatever order searches were answered ("Main Search       *)
(* Fetch with AbortController to eliminate out-of-order race conditions").  *)
FoundIsAsked ==
  Shows => /\ found.key = KeyOf(find)
           /\ typing \/ found.key.query = find.input
=============================================================================

----------------------------- MODULE GraphExplorer -----------------------------
(* The knowledge graph: GraphPage with its query cache, the canvas that is  *)
(* built anew with every render, the filters of GraphControls, the panel of *)
(* a node and the search bar; and the query of Neo4jGraphRepository behind  *)
(* it, which reads the nodes and then the edges of a neighbourhood, while    *)
(* the graph is written to.  Cytoscape is external: it refuses an edge       *)
(* without its two ends.                                                    *)
EXTENDS Naturals, FiniteSetsExt, Workbench

CONSTANTS
  Vertices,         \* entities of the graph
  kindOf,           \* [Vertices -> entity types]
  Edges,            \* [src, tgt, rel]: the links there may be
  Linked,           \* those there are at the start
  Landing,          \* entities the first search may find
  NoVertex, NoFilter,
  MaxDepth,         \* the deepest neighbourhood the buttons offer
  MaxHops           \* bound: what the user does

ASSUME GraphAssumption ==
  /\ NoVertex \notin Vertices /\ Landing \subseteq Vertices
  /\ \A k \in Edges : {k.src, k.tgt} \subseteq Vertices /\ k.rel # NoFilter
  /\ \A v \in Vertices : kindOf[v] # NoFilter
  /\ Linked \subseteq Edges /\ MaxDepth \in 1..4 /\ MaxHops \in Nat

VARIABLES
  landing,          \* the first search: "asked", or what it found
  view,             \* [entity, depth, rel, kind]: selectedEntityId and the filters
  hoods,            \* the query cache: key -> [asks, data, shown, req, read, error]
  links,            \* the links in the graph
  chosen1,          \* selectedNode
  stats,            \* [Vertices -> "none" | "asked" | "again" | "done"]
  broken,           \* the canvas threw and took the page with it
  hops              \* bound used up

graphVars == <<landing, view, hoods, links, chosen1, stats, broken, hops>>

Nothing1 == [nodes |-> {}, edges |-> {}]
Relations == {k.rel : k \in Edges}
VertexKinds == {kindOf[v] : v \in Vertices}
Hop == ~broken /\ hops < MaxHops /\ hops' = hops + 1

(* ---------------------------- the graph service ------------------------- *)
Near(q, ls) == {k \in ls : q.rel \in {NoFilter, k.rel}}

Spread(ls, S) == S \cup UNION {{k.src, k.tgt} : k \in {l \in ls : {l.src, l.tgt} \cap S # {}}}

\* What is at most so many links away; no path is longer than four.
Within(q, ls, n) ==
  LET one == Spread(Near(q, ls), {q.entity})
      two == Spread(Near(q, ls), one)
      three == Spread(Near(q, ls), two)
  IN  CASE n = 0 -> {q.entity} [] n = 1 -> one [] n = 2 -> two [] n = 3 -> three
        [] OTHER -> Spread(Near(q, ls), three)

\* The nodes on the paths no longer than depth, of the relation asked for.
NodesWithin(q, ls) == Within(q, ls, q.depth)

BugEdgesWithin(q, ls) == {k \in Near(q, ls) : {k.src, k.tgt} \cap Within(q, ls, q.depth) # {}}

\* The relationships of those paths: one between two of the nodes that are
\* depth away is on none.
EdgesWithin(q, ls) == {k \in Near(q, ls) : {k.src, k.tgt} \cap Within(q, ls, q.depth - 1) # {}}

\* The answer: two sub-queries, each with the links there are when it reads.
Neighbourhood(q, seen) ==
  [nodes |-> NodesWithin(q, seen.before), edges |-> EdgesWithin(q, seen.after)]

Unread1 == [before |-> {}, after |-> {}]

\* activeEntityId
Active(w, found1) ==
  IF w.entity # NoVertex THEN w.entity ELSE IF found1 = "asked" THEN NoVertex ELSE found1

Asks(w, found1) == [entity |-> Active(w, found1), depth |-> w.depth, rel |-> w.rel]

BugQueryKey(w, found1) == [Asks(w, found1) EXCEPT !.rel = NoFilter]

\* The key of the neighbourhood query: all that its request is made of.
QueryKey(w, found1) == Asks(w, found1)

Fresh1(q) ==
  [asks |-> q, data |-> FALSE, shown |-> Unread1, req |-> "asked", read |-> Unread1, error |-> FALSE]

\* apiGraph, isLoading, error
Entry(w, found1, hs) ==
  LET q == QueryKey(w, found1)
  IN  IF q \in DOMAIN hs THEN hs[q] ELSE [Fresh1(q) EXCEPT !.req = "none"]

Loaded(w, found1, hs) ==
  LET e == Entry(w, found1, hs)
  IN  IF e.data THEN Neighbourhood(e.asks, e.shown) ELSE Nothing1

BugOfKind(w, g) ==
  [nodes |-> IF w.rel = NoFilter THEN g.nodes
             ELSE {v \in g.nodes : \E k \in g.edges : k.rel = w.rel /\ v = k.src},
   edges |-> {k \in g.edges : w.rel \in {NoFilter, k.rel}}]

\* filteredElements: nodes by their type, edges by their relation.
OfKind(w, g) ==
  [nodes |-> {v \in g.nodes : w.kind \in {NoFilter, kindOf[v]}},
   edges |-> {k \in g.edges : w.rel \in {NoFilter, k.rel}}]

\* The effect of GraphCanvas, which every render runs.
Drawable(g) == \A k \in g.edges : {k.src, k.tgt} \subseteq g.nodes

Rendered(w, found1, hs) == broken' = ~Drawable(OfKind(w, Loaded(w, found1, hs)))

GraphInit ==
  /\ landing = "asked" /\ hoods = [q \in {} |-> Fresh1(q)] /\ links = Linked
  /\ view = [entity |-> NoVertex, depth |-> Min({2, MaxDepth}), rel |-> NoFilter, kind |-> NoFilter]
  /\ chosen1 = NoVertex /\ stats = [v \in Vertices |-> "none"] /\ broken = FALSE /\ hops = 0

(* ------------------------------- the queries ---------------------------- *)
\* The page goes on with view w and first result found1: a key that has no
\* data is asked for, one that is stale is asked for again behind its data.
Views(w, found1) ==
  LET q == QueryKey(w, found1)
      there == Entry(w, found1, hoods)
      asked == [Fresh1(Asks(w, found1)) EXCEPT !.data = there.data, !.shown = there.shown]
      moved == q # QueryKey(view, landing)
  IN  /\ view' = w /\ landing' = found1
      /\ \E stale \in BOOLEAN :
           hoods' = IF q.entity # NoVertex /\ moved /\ there.req = "none"
                       /\ (~there.data \/ stale)
                    THEN [p \in DOMAIN hoods \cup {q} |-> IF p = q THEN asked ELSE hoods[p]]
                    ELSE hoods
      /\ Rendered(w, found1, hoods') /\ links' = links

\* The first search: an error counts as nothing found, and is cached so.
Lands ==
  /\ landing = "asked" /\ ~broken /\ \E v \in Landing \cup {NoVertex} : Views(view, v)
  /\ UNCHANGED <<chosen1, stats, hops>>

\* The two sub-queries of a request.
HoodRead(q) ==
  /\ hoods[q].req \in {"asked", "nodes"}
  /\ hoods' = [hoods EXCEPT ![q] =
       IF @.req = "asked" THEN [@ EXCEPT !.req = "nodes", !.read.before = links]
       ELSE [@ EXCEPT !.req = "served", !.read.after = links]]
  /\ UNCHANGED <<landing, view, links, chosen1, stats, broken, hops>>

\* mergeRelationship, for what the engine resolves meanwhile; nothing takes
\* a link away.
LinkMerged(k) ==
  /\ k \in Edges \ links /\ links' = links \cup {k}
  /\ UNCHANGED <<landing, view, hoods, chosen1, stats, broken, hops>>

\* What an error leaves is shown on.
Settled1(h, ok) ==
  [h EXCEPT !.req = "none", !.read = Unread1, !.error = ~ok, !.data = @ \/ ok,
            !.shown = IF ok THEN h.read ELSE @]

HoodSettles(q) ==
  /\ hoods[q].req # "none" /\ ~broken
  /\ \E ok \in BOOLEAN :
       /\ ok => hoods[q].req = "served"
       /\ hoods' = [hoods EXCEPT ![q] = Settled1(@, ok)]
  /\ Rendered(view, landing, hoods')
  /\ UNCHANGED <<landing, view, links, chosen1, stats, hops>>

\* Reload and Retry.
Reload ==
  LET q == QueryKey(view, landing)
  IN  /\ Hop /\ q \in DOMAIN hoods /\ hoods[q].req = "none" /\ hoods' = [hoods EXCEPT ![q].req = "asked"]
      /\ Rendered(view, landing, hoods')
      /\ UNCHANGED <<landing, view, links, chosen1, stats>>

(* ------------------------------ the controls ---------------------------- *)
SetDepth(d) ==
  /\ d # view.depth /\ Hop /\ Views([view EXCEPT !.depth = d], landing)
  /\ UNCHANGED <<chosen1, stats>>

\* Both menus are there when the graph loaded offers something to choose.
SetKind(t) ==
  /\ t # view.kind /\ Hop
  /\ t = NoFilter \/ t \in {kindOf[v] : v \in Loaded(view, landing, hoods).nodes}
  /\ Loaded(view, landing, hoods).nodes # {}
  /\ Views([view EXCEPT !.kind = t], landing)
  /\ UNCHANGED <<chosen1, stats>>

SetRel(r) ==
  /\ r # view.rel /\ Hop
  /\ r = NoFilter \/ r \in {k.rel : k \in Loaded(view, landing, hoods).edges}
  /\ Loaded(view, landing, hoods).edges # {}
  /\ Views([view EXCEPT !.rel = r], landing)
  /\ UNCHANGED <<chosen1, stats>>

GraphLoads == Entry(view, landing, hoods).req # "none" /\ ~Entry(view, landing, hoods).data

\* GraphSearchBar: the text is taken for an id.  Only its button is disabled
\* while the graph loads, Enter is not.
SearchVertex(v) ==
  /\ Hop /\ Views([view EXCEPT !.entity = v], landing)
  /\ chosen1' = NoVertex /\ UNCHANGED stats

\* The button of the empty graph.
ResetVertex ==
  /\ Hop /\ ~GraphLoads /\ OfKind(view, Loaded(view, landing, hoods)).nodes = {}
  /\ Views([view EXCEPT !.entity = NoVertex], landing)
  /\ UNCHANGED <<chosen1, stats>>

(* -------------------------- nodes and their panel ----------------------- *)
OnCanvas == OfKind(view, Loaded(view, landing, hoods)).nodes

\* The panel asks for the statistics of its node.
Tap(v) ==
  /\ v \in OnCanvas \cup {NoVertex} /\ v # chosen1 /\ Hop /\ chosen1' = v
  /\ stats' = IF v # NoVertex /\ stats[v] = "none" THEN [stats EXCEPT ![v] = "asked"] ELSE stats
  /\ Rendered(view, landing, hoods)
  /\ UNCHANGED <<landing, view, hoods, links>>

\* One retry; then the panel shows zeros.
StatsSettle(v) ==
  /\ stats[v] \in {"asked", "again"}
  /\ stats' \in {[stats EXCEPT ![v] = "done"],
                 [stats EXCEPT ![v] = IF @ = "asked" THEN "again" ELSE "none"]}
  /\ UNCHANGED <<landing, view, hoods, links, chosen1, broken, hops>>

BugDeeper(d) == d + 1

\* handleExpandNode
Deeper(d) == Min({MaxDepth, d + 1})

\* A double tap, or the button of the panel.
ExpandVertex(v) ==
  /\ v \in OnCanvas \cup {chosen1} /\ v # NoVertex /\ Hop
  /\ Views([view EXCEPT !.entity = v, !.depth = Deeper(@)], landing)
  /\ UNCHANGED <<chosen1, stats>>

GraphSettles == Lands \/ \E v \in Vertices : StatsSettle(v)

GraphNext ==
  \/ GraphSettles \/ Reload \/ ResetVertex
  \/ \E q \in DOMAIN hoods : HoodRead(q) \/ HoodSettles(q)
  \/ \E k \in Edges : LinkMerged(k)
  \/ \E d \in 1..MaxDepth : SetDepth(d)
  \/ \E t \in VertexKinds \cup {NoFilter} : SetKind(t)
  \/ \E r \in Relations \cup {NoFilter} : SetRel(r)
  \/ \E v \in Vertices : SearchVertex(v) \/ ExpandVertex(v)
  \/ \E v \in Vertices \cup {NoVertex} : Tap(v)

GraphSpec == GraphInit /\ [][GraphNext]_graphVars

\* Requests are answered or fail.
GraphFairness ==
  /\ WF_graphVars(inUse = "graph" /\ GraphSettles)
  /\ WF_graphVars(inUse = "graph" /\ \E q \in DOMAIN hoods : HoodSettles(q))

(* --------------------- waiting, and what is shown ----------------------- *)
GraphWaits == ~broken /\ (GraphLoads \/ landing = "asked")

(* ------------------------------ properties ------------------------------ *)
GraphTypeOK ==
  /\ view.entity \in Vertices \cup {NoVertex} /\ view.depth \in 1..MaxDepth
  /\ view.rel \in Relations \cup {NoFilter} /\ view.kind \in VertexKinds \cup {NoFilter}
  /\ landing \in Vertices \cup {NoVertex, "asked"} /\ chosen1 \in Vertices \cup {NoVertex}
  /\ \A q \in DOMAIN hoods : hoods[q].asks.entity \in Vertices
  /\ links \subseteq Edges
  /\ \A v \in Vertices : stats[v] \in {"none", "asked", "again", "done"}

(* The graph on the page is the neighbourhood of the entity named, of the   *)
(* depth and the relation marked, whichever neighbourhoods were asked for   *)
(* before and in whatever order they arrive: its nodes as they were at one  *)
(* time, its edges as they were then or later.                              *)
GraphOfView ==
  LET shown == Entry(view, landing, hoods).shown
  IN  /\ Loaded(view, landing, hoods) \in {Nothing1, Neighbourhood(Asks(view, landing), shown)}
      /\ Entry(view, landing, hoods).data => Linked \subseteq shown.before
      /\ shown.before \subseteq shown.after
      /\ shown.after \subseteq links

(* Two things make the canvas throw: the filter of entity types, which      *)
(* leaves the edges of the nodes it hides, and a link that was written      *)
(* between the two sub-queries of the answer.  No others: not the relation, *)
(* not the depth, not a graph that is replaced while its nodes are selected,*)
(* not one that is written to at any other time.                            *)
DrawnWhole ==
  LET shown == Entry(view, landing, hoods).shown
  IN  broken => view.kind # NoFilter \/ shown.before # shown.after
=============================================================================

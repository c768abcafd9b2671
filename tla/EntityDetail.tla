----------------------------- MODULE EntityDetail -----------------------------
(* One golden record on a page of its own: EntityDetailPage with its        *)
(* EntityPropertyTable, and ProvenanceInspector, the drawer that asks for   *)
(* the provenance again.  The router keeps the page mounted when only the   *)
(* entity of the route is another one; each effect owns a flag isMounted.   *)
EXTENDS Naturals, Workbench

CONSTANTS
  Entities,         \* golden records
  propertyKeys,     \* [Entities -> keys of its properties]
  NoEntity, NoKey,
  MaxSteps          \* bound: what the user does

ASSUME DetailAssumption ==
  /\ NoEntity \notin Entities /\ MaxSteps \in Nat
  /\ \A e \in Entities : NoKey \notin propertyKeys[e]

VARIABLES
  entityId,         \* of the route
  record,           \* [entity, provenance, loading, error]: the page
  lookups,          \* requests of the page: [of, at, mounted]
  activeKey,        \* activeProvenanceKey
  drawer,           \* [lines, loading], or Unmounted
  probes,           \* requests of the drawer: [of, mounted]
  steps             \* bound used up

detailVars == <<entityId, record, lookups, activeKey, drawer, probes, steps>>

Unmounted == [lines |-> NoEntity, loading |-> FALSE]
Keys == UNION {propertyKeys[e] : e \in Entities}
Wander == steps < MaxSteps /\ steps' = steps + 1

DetailInit ==
  /\ entityId \in Entities
  /\ record = [entity |-> NoEntity, provenance |-> NoEntity, loading |-> TRUE, error |-> FALSE]
  /\ lookups = {[of |-> entityId, at |-> "asked", mounted |-> TRUE]}
  /\ activeKey = NoKey /\ drawer = Unmounted /\ probes = {} /\ steps = 0

\* The record is rendered, and the drawer with it.
ShowsRecord == ~record.loading /\ ~record.error /\ record.entity # NoEntity

BugAbandoned(rs) == {r \in rs : r.mounted}

\* The cleanup of an effect.
Abandoned(rs) == {[r EXCEPT !.mounted = FALSE] : r \in rs}

(* ------------------------------- the drawer ----------------------------- *)
\* The effect of an open drawer: whatever was asked before is passed over.
Probing(e) == Abandoned(probes) \cup {[of |-> e, mounted |-> TRUE]}

\* How the drawer goes on when the page shows r and the key is k: it is
\* mounted with the record, and asks when it is opened.
DrawerFollows(r, k) ==
  LET visible == ~r.loading /\ ~r.error /\ r.entity # NoEntity
      asks == visible /\ k # NoKey /\ (~ShowsRecord \/ activeKey = NoKey)
  IN  /\ drawer' = IF ~visible THEN Unmounted
                   ELSE [lines |-> drawer.lines, loading |-> drawer.loading \/ asks]
      /\ probes' = IF asks THEN Probing(entityId)
                   ELSE IF visible /\ k # NoKey THEN probes ELSE Abandoned(probes)

\* The button of a property: a second click closes the drawer.
ClickKey(k) ==
  /\ ShowsRecord /\ k \in propertyKeys[record.entity] /\ Wander
  /\ activeKey' = (IF activeKey = k THEN NoKey ELSE k) /\ DrawerFollows(record, activeKey')
  /\ UNCHANGED <<entityId, record, lookups>>

\* Escape, the cross, or a click beside it.
CloseDrawer ==
  /\ ShowsRecord /\ activeKey # NoKey /\ Wander
  /\ activeKey' = NoKey /\ DrawerFollows(record, NoKey)
  /\ UNCHANGED <<entityId, record, lookups>>

BugHeard(p) == TRUE

Heard(p) == p.mounted

\* An error shows no lines.
ProbeSettles(p) ==
  /\ probes' = probes \ {p}
  /\ IF Heard(p) THEN drawer' \in {[lines |-> e, loading |-> FALSE] : e \in {p.of, NoEntity}}
                  ELSE drawer' = drawer
  /\ UNCHANGED <<entityId, record, lookups, activeKey, steps>>

(* -------------------------------- the page ------------------------------ *)
\* The route leads to another record while the page stays.
VisitRecord(e) ==
  /\ e # entityId /\ Wander /\ entityId' = e
  /\ record' = [record EXCEPT !.loading = TRUE, !.error = FALSE]
  /\ lookups' = Abandoned(lookups) \cup {[of |-> e, at |-> "asked", mounted |-> TRUE]}
  /\ DrawerFollows(record', activeKey)
  /\ UNCHANGED activeKey

Go(r, at) == lookups' = (lookups \ {r}) \cup {[r EXCEPT !.at = at]}
Shown1(r, rec) == record' = rec /\ DrawerFollows(rec, activeKey) /\ UNCHANGED <<entityId, activeKey, steps>>

\* Both requests have settled; the flag is looked at once, here.
RecordSettles(r) ==
  /\ r.at = "asked"
  /\ IF ~r.mounted THEN lookups' = lookups \ {r} /\ Shown1(r, record)
     ELSE \/ Go(r, "body") /\ Shown1(r, record)
          \/ Go(r, "lines") /\ Shown1(r, [record EXCEPT !.error = TRUE])

\* The body of the first answer was read.
RecordRead(r) ==
  /\ r.at = "body" /\ Go(r, "lines") /\ Shown1(r, [record EXCEPT !.entity = r.of])

\* The body of the second was read, or there was none.
LinesRead(r) ==
  /\ r.at = "lines" /\ lookups' = lookups \ {r}
  /\ \E e \in {r.of, NoEntity} :
       Shown1(r, [record EXCEPT !.provenance = e, !.loading = @ /\ ~r.mounted])

\* A body cannot be read: the flag is looked at again.
ReadThrows(r) ==
  /\ r.at \in {"body", "lines"} /\ lookups' = lookups \ {r}
  /\ Shown1(r, IF r.mounted THEN [record EXCEPT !.error = TRUE, !.loading = FALSE] ELSE record)

DetailSettles(r) == RecordSettles(r) \/ RecordRead(r) \/ LinesRead(r) \/ ReadThrows(r)

DetailNext ==
  \/ \E k \in Keys : ClickKey(k)
  \/ CloseDrawer
  \/ \E p \in probes : ProbeSettles(p)
  \/ \E e \in Entities : VisitRecord(e)
  \/ \E r \in lookups : DetailSettles(r)

DetailSpec == DetailInit /\ [][DetailNext]_detailVars

DetailFairness ==
  /\ WF_detailVars(inUse = "detail" /\ \E p \in probes : ProbeSettles(p))
  /\ WF_detailVars(inUse = "detail" /\ \E r \in lookups : DetailSettles(r))

(* --------------------- waiting, and what is shown ----------------------- *)
DetailWaits == record.loading \/ (activeKey # NoKey /\ drawer.loading)

(* ------------------------------ properties ------------------------------ *)
DetailTypeOK ==
  /\ entityId \in Entities /\ record.entity \in Entities \cup {NoEntity}
  /\ activeKey \in Keys \cup {NoKey}
  /\ record.loading = (\E r \in lookups : r.mounted)
  /\ \A r \in lookups : r.mounted => r.of = entityId
  /\ ~ShowsRecord => drawer = Unmounted

(* The drawer never explains a value by the provenance of another record,   *)
(* and an open drawer that does not load has asked, in whatever order       *)
(* answers come and however often it is opened, closed and led elsewhere.   *)
DrawerOfRecord ==
  ShowsRecord /\ activeKey # NoKey /\ ~drawer.loading => drawer.lines \in {entityId, NoEntity}
=============================================================================

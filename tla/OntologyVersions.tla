--------------------------- MODULE OntologyVersions ---------------------------
(* Published versions of the ontology: the tab that lists them,             *)
(* PublishVersionModal, VersionDiffModal and the service that takes the     *)
(* snapshots and compares them.  A tag is a pair <<major, minor>>; the      *)
(* service checks a tag and inserts the version in two steps.               *)
EXTENDS FiniteSets, Integers, SequencesExt, Workbench

CONSTANTS
  Types,             \* entity and relationship types that may exist
  OwnTags,           \* tags a user enters instead of the suggested one
  MaxVersions, MaxVisits2   \* bounds: versions published, windows and tabs opened

ASSUME VersionsAssumption == MaxVersions \in Nat /\ MaxVisits2 \in Nat

VARIABLES
  board,             \* the tab: shown or not, the versions listed, newest first
  publisher,         \* PublishVersionModal
  diffView,          \* VersionDiffModal
  posts,             \* requests and answers under way
  schemaNow,         \* server: the types of the draft
  released,          \* server: versions in the order of their creation
  visits2            \* bound used up

versionVars == <<board, publisher, diffView, posts, schemaNow, released, visits2>>

VersionIds == 1 .. MaxVersions
NoDiff == [version |-> 0, added |-> {}, removed |-> {}]

\* A window that is closed has no state.
NoPublisher == [open |-> FALSE, inst |-> 0, busy |-> FALSE, tag |-> <<1, 0>>]
NoDiffView == [open |-> FALSE, inst |-> 0, loading |-> FALSE, version |-> 0, diff |-> NoDiff]

VersionsInit ==
  /\ board = [shown |-> FALSE, list |-> <<>>]
  /\ publisher = NoPublisher /\ diffView = NoDiffView
  /\ posts = {} /\ schemaNow = {} /\ released = <<>> /\ visits2 = 0

Visit2 == visits2 < MaxVisits2 /\ visits2' = visits2 + 1

\* Types come and go in the editors.
EditSchema(t) ==
  /\ schemaNow' = (schemaNow \ {t}) \cup ({t} \ schemaNow) /\ Visit2
  /\ UNCHANGED <<board, publisher, diffView, posts, released>>

(* -------------------------------- the tab ------------------------------- *)
AskVersions == [op |-> "versions", inst |-> visits2]

OpenVersions ==
  /\ ~board.shown /\ ~publisher.open /\ Visit2 /\ board' = [board EXCEPT !.shown = TRUE]
  /\ posts' = posts \cup {AskVersions}
  /\ UNCHANGED <<publisher, diffView, schemaNow, released>>

LeaveVersions ==
  /\ board.shown /\ ~publisher.open /\ ~diffView.open /\ board' = [board EXCEPT !.shown = FALSE]
  /\ UNCHANGED <<publisher, diffView, posts, schemaNow, released, visits2>>

\* The list is read, then it arrives; a failure leaves the list as it is.
ServeVersions(p) ==
  /\ p.op = "versions"
  /\ posts' = (posts \ {p}) \cup {[op |-> "listed", ids |-> Reverse([i \in DOMAIN released |-> i])]}
  /\ UNCHANGED <<board, publisher, diffView, schemaNow, released, visits2>>

VersionsArrive(p) ==
  /\ p.op \in {"listed", "versions"} /\ posts' = posts \ {p}
  /\ board' = IF p.op = "listed" THEN [board EXCEPT !.list = p.ids] ELSE board
  /\ UNCHANGED <<publisher, diffView, schemaNow, released, visits2>>

(* ------------------------------ publishing ------------------------------ *)
\* suggestNextVersion: from the versions the page has loaded, if any.
SuggestNext ==
  IF board.list = <<>> THEN <<1, 0>>
  ELSE LET t == released[board.list[1]].tag IN <<t[1], t[2] + 1>>

OpenPublisher ==
  /\ ~publisher.open /\ ~diffView.open /\ Visit2
  /\ publisher' = [open |-> TRUE, inst |-> visits2, busy |-> FALSE, tag |-> SuggestNext]
  /\ UNCHANGED <<board, diffView, posts, schemaNow, released>>

EnterTag(t) ==
  /\ publisher.open /\ ~publisher.busy /\ publisher' = [publisher EXCEPT !.tag = t]
  /\ UNCHANGED <<board, diffView, posts, schemaNow, released, visits2>>

ClosePublisher ==
  /\ publisher.open /\ publisher' = NoPublisher
  /\ UNCHANGED <<board, diffView, posts, schemaNow, released, visits2>>

BugMayPublish == publisher.open

MayPublish == publisher.open /\ ~publisher.busy

Publish ==
  /\ MayPublish /\ publisher' = [publisher EXCEPT !.busy = TRUE]
  /\ Cardinality({p \in posts : p.op \in {"publish", "insert"}}) + Len(released) < MaxVersions
  /\ posts' = posts \cup {[op |-> "publish", inst |-> publisher.inst, tag |-> publisher.tag]}
  /\ UNCHANGED <<board, diffView, schemaNow, released, visits2>>

TagTaken(t) == \E i \in DOMAIN released : released[i].tag = t

\* publishVersion: the tag is free, and the snapshot is taken.
Snapshot(p) ==
  /\ p.op = "publish" /\ ~TagTaken(p.tag)
  /\ posts' = (posts \ {p}) \cup
       {[op |-> "insert", inst |-> p.inst, tag |-> p.tag, types |-> schemaNow]}
  /\ UNCHANGED <<board, publisher, diffView, schemaNow, released, visits2>>

Insert(p) ==
  /\ p.op = "insert" /\ released' = Append(released, [tag |-> p.tag, types |-> p.types])
  /\ posts' = (posts \ {p}) \cup {[op |-> "published", inst |-> p.inst, id |-> Len(released) + 1]}
  /\ UNCHANGED <<board, publisher, diffView, schemaNow, visits2>>

Ours(view, p) == view.open /\ view.inst = p.inst

NotBusy(p) == publisher.busy /\ ~Ours(publisher, p)

\* onPublished: first in the list, the tab is shown (and loads when it was
\* not), and the window that is open is closed.
PublishedArrives(p) ==
  /\ p.op = "published" /\ visits2' = visits2
  /\ board' = [shown |-> TRUE, list |-> <<p.id>> \o board.list]
  /\ posts' = (posts \ {p}) \cup (IF board.shown THEN {} ELSE {AskVersions})
  /\ publisher' = NoPublisher
  /\ UNCHANGED <<diffView, schemaNow, released>>

\* Refused (the tag exists), or lost before or after it was served.
PublishFails(p) ==
  /\ p.op \in {"publish", "published"} /\ posts' = posts \ {p}
  /\ publisher' = [publisher EXCEPT !.busy = NotBusy(p)]
  /\ UNCHANGED <<board, diffView, schemaNow, released, visits2>>

(* ------------------------------ comparing ------------------------------- *)
BugPreviousOf(k) == k + 1

\* The version created before it; of the first one there is none.
PreviousOf(k) == k - 1

TypesOf(k) == IF k \in DOMAIN released THEN released[k].types ELSE {}

DiffOf(k) == [version |-> k, added |-> TypesOf(k) \ TypesOf(PreviousOf(k)),
              removed |-> TypesOf(PreviousOf(k)) \ TypesOf(k)]

OpenDiff(k) ==
  /\ board.shown /\ ~publisher.open /\ ~diffView.open /\ k \in Range(board.list) /\ Visit2
  /\ diffView' = [open |-> TRUE, inst |-> visits2, loading |-> TRUE, version |-> k,
                  diff |-> NoDiff]
  /\ posts' = posts \cup {[op |-> "diff", inst |-> visits2, id |-> k]}
  /\ UNCHANGED <<board, publisher, schemaNow, released>>

CloseDiff ==
  /\ diffView.open /\ diffView' = NoDiffView
  /\ UNCHANGED <<board, publisher, posts, schemaNow, released, visits2>>

ServeDiff(p) ==
  /\ p.op = "diff"
  /\ posts' = (posts \ {p}) \cup {[op |-> "compared", inst |-> p.inst, diff |-> DiffOf(p.id)]}
  /\ UNCHANGED <<board, publisher, diffView, schemaNow, released, visits2>>

BugOwnDiff(p) == diffView.open

\* A modal that was closed takes no answer.
OwnDiff(p) == Ours(diffView, p)

DiffArrives(p) ==
  /\ p.op \in {"compared", "diff"} /\ posts' = posts \ {p}
  /\ diffView' = IF ~OwnDiff(p) THEN diffView
                 ELSE IF p.op = "compared" THEN [diffView EXCEPT !.loading = FALSE, !.diff = p.diff]
                 ELSE [diffView EXCEPT !.loading = FALSE]
  /\ UNCHANGED <<board, publisher, schemaNow, released, visits2>>

VersionPost == \E p \in posts :
  \/ ServeVersions(p) \/ VersionsArrive(p) \/ Snapshot(p) \/ Insert(p) \/ PublishedArrives(p)
  \/ PublishFails(p) \/ ServeDiff(p) \/ DiffArrives(p)

VersionsNext ==
  \/ VersionPost \/ OpenVersions \/ LeaveVersions \/ OpenPublisher \/ ClosePublisher \/ Publish
  \/ CloseDiff
  \/ \E t \in Types : EditSchema(t)
  \/ \E t \in OwnTags : EnterTag(t)
  \/ \E k \in VersionIds : OpenDiff(k)

VersionsSpec == VersionsInit /\ [][VersionsNext]_versionVars

\* Requests are served and answered or fail, however often one publishes.
VersionsFairness ==
  /\ WF_versionVars(inUse = "versions" /\ \E p \in posts :
       p.op \in {"versions", "listed", "diff", "compared"}
         /\ (ServeVersions(p) \/ VersionsArrive(p) \/ ServeDiff(p) \/ DiffArrives(p)))
  /\ \A i \in 0 .. MaxVisits2 :
       WF_versionVars(inUse = "versions" /\ \E p \in posts : p.op \in {"publish", "insert", "published"} /\ p.inst = i
         /\ (Snapshot(p) \/ Insert(p) \/ PublishedArrives(p) \/ PublishFails(p)))

(* --------------------- waiting, and what is shown ----------------------- *)
\* One of the windows is busy.
VersionsWait == (publisher.open /\ publisher.busy) \/ (diffView.open /\ diffView.loading)

(* ------------------------------ properties ------------------------------ *)
VersionsTypeOK ==
  /\ Range(board.list) \subseteq DOMAIN released /\ Len(released) <= MaxVersions
  /\ diffView.version \in {0} \cup DOMAIN released
  /\ \A i \in DOMAIN released : released[i].types \subseteq Types
  /\ ~(publisher.open /\ diffView.open) /\ visits2 \in 0 .. MaxVisits2
  /\ Cardinality({p \in posts : p.op \in {"publish", "insert"} /\ Ours(publisher, p)}) <= 1

\* The comparisons tell the whole history: replayed in the order of creation
\* they lead from nothing to the types of every version, also when two
\* versions were published at once, with one tag or with an older snapshot.
DiffsReplay ==
  LET replay[k \in 0 .. Len(released)] ==
        IF k = 0 THEN {} ELSE (replay[k - 1] \ DiffOf(k).removed) \cup DiffOf(k).added
  IN  \A k \in DOMAIN released : replay[k] = released[k].types

\* The window compares the version it was opened for, never one that was
\* looked at before and answers late.
DiffIsOfVersion == diffView.diff # NoDiff => diffView.diff.version = diffView.version
=============================================================================

--------------------------- MODULE ResolutionProofs ---------------------------
(***************************************************************************)
(* What TLAPS proves of EntityResolution, for any records, scores, numbers *)
(* of runs, tries and retries, and any faults: every invariant the runs    *)
(* check.  What union-find computes is proved in UnionFindProofs.          *)
(*                                                                         *)
(* The invariant is one of each run, Inv(r), beside TypeOK: where the run  *)
(* can be (Placed), what each asset returned, wherever it now is (Framed), *)
(* what was written (Written) and how often (Counted), that the pairs to   *)
(* review were proposed before golden records can be made of their records *)
(* (Asking), how far the announcement of a batch is (Announcing,           *)
(* Completing), and where its provenance went (Traced).  A step of a run   *)
(* either leaves the tables (Moving, StandingStill, Unreading) or writes   *)
(* one of them; the other runs stay as they are (Staying).                 *)
(***************************************************************************)
EXTENDS EntityResolution, FiniteSetTheorems, SequenceTheorems, TLAPS

Status == {"new", "running", "failed", "completed", "dead"}
Pc == {"ready", "unread", "publish", "finish", "save", "returned", "end"}
Clustering == SUBSET SUBSET Ids

(* ------------------------------- records -------------------------------- *)
LEMMA FramesMade ==
  /\ \A o \in SUBSET Ids, p \in SUBSET Pairs :
       Frame(o, p) \in FrameType /\ Frame(o, p).of = o /\ Frame(o, p).pairs = p
  /\ Nothing \in FrameType
  /\ \A f \in FrameType : f.of \in SUBSET Ids /\ f.pairs \in SUBSET Pairs
BY DEF Frame, Nothing, FrameType

LEMMA FreshMade ==
  ASSUME NEW n \in 0..MaxRetries
  PROVE  /\ Fresh(n) \in RunRecord /\ [Fresh(n) EXCEPT !.status = "new"] \in RunRecord
         /\ Fresh(n).at = Load /\ Fresh(n).pc = "ready" /\ Fresh(n).status = "running"
<1>1. 0 \in 0..MaxTries - 1
  BY ResolutionAssumption DEF ResolutionAssumption
<1>2. Load \in Assets /\ Nothing \in FrameType
  BY FramesMade DEF Load, Assets
<1>. QED  BY <1>1, <1>2 DEF Fresh, RunRecord

LEMMA FieldsKept ==
  ASSUME NEW record \in RunRecord
  PROVE  /\ \A s \in Status : [record EXCEPT !.status = s] \in RunRecord
         /\ \A p \in Pc : [record EXCEPT !.pc = p] \in RunRecord
         /\ \A f \in FrameType, p \in Pc : [record EXCEPT !.out = f, !.pc = p] \in RunRecord
         /\ \A c \in Clustering, p \in Pc : [record EXCEPT !.pc = p, !.clusters = c] \in RunRecord
         /\ \A c \in Clustering : [record EXCEPT !.clusters = c] \in RunRecord
BY DEF RunRecord, Status, Pc, Clustering

(* An asset that fails begins again, or ends the run where it is.          *)
LEMMA FailureMade ==
  ASSUME NEW record \in RunRecord
  PROVE  /\ AfterFailure(record) \in RunRecord
         /\ \/ /\ AfterFailure(record).status = record.status /\ AfterFailure(record).pc = "ready"
            \/ /\ AfterFailure(record).status = "failed" /\ AfterFailure(record).pc = record.pc
               /\ AfterFailure(record).out = record.out
         /\ AfterFailure(record).at = record.at /\ AfterFailure(record).data = record.data
         /\ AfterFailure(record).records = record.records
         /\ AfterFailure(record).clusters = record.clusters
<1>1. CASE record.tries + 1 < MaxTries
  <2>. DEFINE n == record.tries + 1
  <2>1. n \in 0..MaxTries - 1
    BY <1>1, ResolutionAssumption DEF ResolutionAssumption, RunRecord
  <2>2. AfterFailure(record) = [record EXCEPT !.tries = n, !.pc = "ready", !.out = Nothing]
    BY <1>1 DEF AfterFailure
  <2>. HIDE DEF n
  <2>3. [record EXCEPT !.tries = n, !.pc = "ready", !.out = Nothing] \in RunRecord
    BY <2>1, FramesMade DEF RunRecord
  <2>. QED  BY <2>2, <2>3 DEF RunRecord
<1>2. CASE ~(record.tries + 1 < MaxTries)
  <2>1. AfterFailure(record) = [record EXCEPT !.status = "failed"]
    BY <1>2 DEF AfterFailure
  <2>2. [record EXCEPT !.status = "failed"] \in RunRecord
    BY FieldsKept DEF Status
  <2>. QED  BY <2>1, <2>2 DEF RunRecord
<1>. QED  BY <1>1, <1>2

LEMMA PassedMade ==
  ASSUME NEW record \in RunRecord
  PROVE  /\ Passed(record) \in RunRecord
         /\ Passed(record).data = record.out /\ Passed(record).status = record.status
         /\ Passed(record).clusters = record.clusters
         /\ Passed(record).records = IF record.at = Load THEN record.out.of ELSE record.records
         /\ record.at = Golden => Passed(record).at = Golden /\ Passed(record).pc = "end"
         /\ record.at # Golden => Passed(record).at = record.at + 1 /\ Passed(record).pc = "ready"
<1>. DEFINE at == IF record.at = Golden THEN Golden ELSE record.at + 1
            pc == IF record.at = Golden THEN "end" ELSE "ready"
            records == IF record.at = Load THEN record.out.of ELSE record.records
<1>1. at \in Assets /\ pc \in Pc
  BY DEF RunRecord, Assets, Golden, Pc
<1>2. records \in SUBSET Ids /\ record.out \in FrameType
  BY FramesMade DEF RunRecord
<1>3. 0 \in 0..MaxTries - 1
  BY ResolutionAssumption DEF ResolutionAssumption
<1>4. Passed(record) = [record EXCEPT !.data = record.out, !.out = Nothing, !.tries = 0,
                                      !.records = records, !.at = at, !.pc = pc]
  BY DEF Passed, RunRecord
<1>. HIDE DEF at, pc, records
<1>5. [record EXCEPT !.data = record.out, !.out = Nothing, !.tries = 0,
                     !.records = records, !.at = at, !.pc = pc] \in RunRecord
  BY <1>1, <1>2, <1>3, FramesMade DEF RunRecord, Pc
<1>6. /\ Passed(record).data = record.out /\ Passed(record).at = at /\ Passed(record).pc = pc
      /\ Passed(record).records = records /\ Passed(record).status = record.status
      /\ Passed(record).clusters = record.clusters
  BY <1>4 DEF RunRecord
<1>. QED  BY <1>4, <1>5, <1>6 DEF at, pc, records

(* -------------------------------- faults -------------------------------- *)
LEMMA Strikes ==
  ASSUME NEW kind, Strike(kind)
  PROVE  kind \in Faults /\ faults' = [faults EXCEPT ![kind] = @ + 1]
BY DEF Strike

FaultsTyped == faults \in [Faults -> Nat]
Faulty == Sound \/ \E kind \in Faults : faults' = [faults EXCEPT ![kind] = @ + 1]
Grow == \A kind : Struck(kind) \in Nat /\ Struck(kind)' \in Nat /\ Struck(kind)' >= Struck(kind)

LEMMA FaultsGrow ==
  ASSUME FaultsTyped, Faulty
  PROVE  FaultsTyped' /\ Grow
<1>1. CASE Sound
  <2>1. \A kind : Struck(kind) \in Nat
    BY DEF FaultsTyped, Struck
  <2>2. \A kind : Struck(kind)' = Struck(kind)
    BY <1>1 DEF Sound, Struck
  <2>3. FaultsTyped'
    BY <1>1 DEF Sound, FaultsTyped
  <2>4. ASSUME NEW kind PROVE Struck(kind)' >= Struck(kind)
    BY <2>1, <2>2
  <2>. QED  BY <2>1, <2>2, <2>3, <2>4 DEF Grow
<1>2. ASSUME NEW k \in Faults, faults' = [faults EXCEPT ![k] = @ + 1]
      PROVE  FaultsTyped' /\ Grow
  <2>1. FaultsTyped' /\ faults[k] \in Nat /\ faults'[k] = faults[k] + 1
    BY <1>2 DEF FaultsTyped
  <2>2. \A j \in Faults : j # k => faults'[j] = faults[j]
    BY <1>2 DEF FaultsTyped
  <2>3. \A kind : Struck(kind) \in Nat /\ Struck(kind)' \in Nat
    BY <2>1 DEF FaultsTyped, Struck
  <2>4. ASSUME NEW kind PROVE Struck(kind)' >= Struck(kind)
    <3>1. CASE kind = k
      BY <1>2, <2>1, <3>1 DEF Struck
    <3>2. CASE kind # k
      <4>1. Struck(kind)' = Struck(kind)
        BY <2>2, <3>2 DEF Struck
      <4>. QED  BY <2>3, <4>1
    <3>. QED  BY <3>1, <3>2
  <2>. QED  BY <2>1, <2>3, <2>4 DEF Grow
<1>. QED  BY <1>1, <1>2 DEF Faulty

LEMMA StruckOnce ==
  ASSUME FaultsTyped, NEW kind, Strike(kind)
  PROVE  Struck(kind)' = Struck(kind) + 1 /\ Struck(kind) \in Nat
BY Strikes DEF FaultsTyped, Struck

(* ------------------------------- clusters ------------------------------- *)
LEMMA Clustered ==
  ASSUME NEW rows, NEW records \in SUBSET Ids
  PROVE  /\ Matching!Clusters(rows, records) \in Clustering
         /\ Partitions(Matching!Clusters(rows, records), records)
<1>1. \E uf : Matching!Clusters(rows, records) = {Matching!Group(uf, records, x) : x \in records}
  BY DEF Matching!Clusters
<1>2. PICK uf : Matching!Clusters(rows, records) = {Matching!Group(uf, records, x) : x \in records}
  BY <1>1
<1>. DEFINE root(x) == Matching!Find(uf, x)
            group(x) == Matching!Group(uf, records, x)
<1>3. \A x : group(x) = {y \in records : root(y) = root(x)}
  BY DEF Matching!Group
<1>. HIDE DEF root, group
<1>4. Matching!Clusters(rows, records) = {group(x) : x \in records}
  BY <1>2 DEF group
<1>5. UNION {group(x) : x \in records} = records
  BY <1>3
<1>6. \A x \in records : group(x) # {} /\ group(x) \subseteq records
  BY <1>3
<1>7. \A x, y \in records : group(x) # group(y) => group(x) \cap group(y) = {}
  BY <1>3
<1>. QED  BY <1>4, <1>5, <1>6, <1>7 DEF Partitions, Clustering

Found == INSTANCE UnionFindProofs

(* The matches among records o in a world w, and what SameEntity says of   *)
(* one batch.                                                              *)
MatchesOf(w, o) ==
  {p \in Pairs : /\ {p[1], p[2]} \subseteq o
                 /\ w.key[p[1]] = w.key[p[2]] /\ w.key[p[1]] # Empty
                 /\ w.score[p] \in 90..100}
Joined(w, b) ==
  \A x, y \in b.records : x < y =>
    ((\E c \in b.clusters : x \in c /\ y \in c) <=> Linked(x, y, b.of, MatchesOf(w, b.of)))

(* The rows are all the pairs, one after the other.                         *)
LEMMA OrdersList ==
  ASSUME NEW pairs \in SUBSET Pairs, NEW rows \in Orders(pairs)
  PROVE  /\ rows \in Seq(pairs) /\ Len(rows) \in Nat
         /\ \A p \in pairs : \E i \in 1..Len(rows) : rows[i] = p
<1>. DEFINE n == Cardinality(pairs)
<1>1. IsFiniteSet(Ids)
  BY ResolutionAssumption DEF ResolutionAssumption
<1>2. IsFiniteSet(Ids \X Ids) /\ pairs \in SUBSET (Ids \X Ids)
  BY <1>1, FS_Product DEF Pairs
<1>3. IsFiniteSet(pairs)
  BY <1>2, FS_Subset
<1>4. n \in Nat
  BY <1>3, FS_CardinalityType
<1>5. /\ rows \in [1..n -> pairs]
      /\ \A i, j \in 1..n : i # j => rows[i] # rows[j]
  BY DEF Orders
<1>6. Cardinality(1..n) = n
  BY <1>4, FS_Interval
<1>7. rows \in Injection(1..n, pairs)
  BY <1>5 DEF Injection, IsInjective
<1>. HIDE DEF n
<1>8. rows \in Surjection(1..n, pairs)
  BY <1>3, <1>6, <1>7, FS_Injection DEF n
<1>9. \A p \in pairs : \E i \in 1..n : rows[i] = p
  BY <1>8 DEF Surjection
<1>10. rows \in Seq(pairs) /\ Len(rows) = n
  BY <1>4, <1>5
<1>. QED  BY <1>4, <1>9, <1>10

(* What is proved of union-find is proved of its use here.                  *)
LEMMA SameClusters ==
  ASSUME NEW rows, NEW records
  PROVE  Matching!Clusters(rows, records) = Found!Clusters(rows, records)
<1>1. \A uf, item : Matching!Find(uf, item) = Found!Find(uf, item)
  BY DEF Matching!Find, Found!Find
<1>2. Matching!Unions(rows) = Found!Unions(rows)
  BY DEF Matching!Unions, Found!Unions, Matching!Union, Found!Union, Matching!Find, Found!Find,
         Matching!NoUnion, Found!NoUnion
<1>3. \A uf, x : Matching!Group(uf, records, x) = Found!Group(uf, records, x)
  BY <1>1 DEF Matching!Group, Found!Group
<1>. QED  BY <1>2, <1>3 DEF Matching!Clusters, Found!Clusters

(* The ids outside o are in no pair, so a closed set can be cut down to o.  *)
LEMMA ClustersJoin ==
  ASSUME NEW w, NEW o \in SUBSET Ids, NEW records \in SUBSET Ids,
         NEW rows \in Orders(MatchesOf(w, o)),
         NEW x \in records, NEW y \in records, x # y
  PROVE  (\E c \in Matching!Clusters(rows, records) : x \in c /\ y \in c)
           <=> Linked(x, y, o, MatchesOf(w, o))
<1>. DEFINE links == MatchesOf(w, o)
            Shut(S) == \A p \in links : p[1] \in S <=> p[2] \in S
<1>1. \A p \in links : p \in Pairs /\ p[1] \in o /\ p[2] \in o
  BY DEF MatchesOf
<1>2. links \in SUBSET Pairs
  BY <1>1
<1>3. /\ rows \in Seq(links) /\ Len(rows) \in Nat
      /\ \A p \in links : \E i \in 1..Len(rows) : rows[i] = p
  BY <1>2, OrdersList
<1>4. \A i \in 1..Len(rows) : rows[i] \in links
  BY <1>3
<1>5. rows \in Seq(Found!Links)
  <2>1. links \subseteq Found!Links
    BY <1>2 DEF Pairs, Found!Links
  <2>. HIDE DEF links
  <2>. QED  BY <1>3, <2>1
<1>. HIDE DEF links
<1>6. \A S \in SUBSET Ids : Found!Stays(rows, Len(rows), S) <=> Shut(S)
  BY <1>3, <1>4 DEF Found!Stays
<1>7. (\E c \in Found!Clusters(rows, records) : x \in c /\ y \in c)
        <=> \A S \in SUBSET Ids : x \in S /\ Found!Stays(rows, Len(rows), S) => y \in S
  BY <1>5, Found!ClustersAreComponents
<1>8. (\A S \in SUBSET Ids : x \in S /\ Found!Stays(rows, Len(rows), S) => y \in S)
        <=> \A S \in SUBSET Ids : x \in S /\ Shut(S) => y \in S
  BY <1>6
<1>9. (\A S \in SUBSET Ids : x \in S /\ Shut(S) => y \in S)
        => {x, y} \subseteq o /\ \A S \in SUBSET o : x \in S /\ Shut(S) => y \in S
  <2>1. Shut({x}) \/ x \in o
    BY <1>1
  <2>2. Shut(o)
    BY <1>1
  <2>. HIDE DEF Shut
  <2>3. {x} \in SUBSET Ids /\ o \in SUBSET Ids
    OBVIOUS
  <2>. QED  BY <2>1, <2>2, <2>3
<1>10. ASSUME {x, y} \subseteq o, \A S \in SUBSET o : x \in S /\ Shut(S) => y \in S,
              NEW S \in SUBSET Ids, x \in S, Shut(S)
       PROVE  y \in S
  <2>1. Shut(S \cap o) /\ S \cap o \in SUBSET o /\ x \in S \cap o
    BY <1>1, <1>10
  <2>2. y \in S \cap o
    BY <1>10, <2>1
  <2>. QED  BY <2>2
<1>11. (\A S \in SUBSET Ids : x \in S /\ Shut(S) => y \in S)
         <=> {x, y} \subseteq o /\ \A S \in SUBSET o : x \in S /\ Shut(S) => y \in S
  BY <1>9, <1>10
<1>. QED  BY <1>7, <1>8, <1>11, SameClusters DEF Linked, links

-----------------------------------------------------------------------------
(* The invariant, for each run *)

Built(m) == m.pc \in {"save", "returned"}

(* Where a run can be.                                                     *)
Placed(m) ==
  /\ m.pc \in {"publish", "finish", "end"} => m.at = Golden
  /\ m.status = "completed" => m.pc = "end"
  /\ m.status \in {"new", "failed"} => m.pc \in {"ready", "unread", "returned", "end"}

(* The frames of a run, and what is true of each: what asset a returned is *)
(* in its checkpoint, on its way out, or the input of the next.            *)
Has(r, a, f) ==
  \/ checkpoint[r][a] # None /\ checkpoint[r][a] = f
  \/ run[r].at = a /\ Built(run[r]) /\ run[r].out = f
  \/ run[r].at = a + 1 /\ run[r].pc # "end" /\ run[r].data = f
Right(a, f) ==
  /\ ~MayFallBack => f.of \subseteq Records
  /\ a \in {Block, Score} => f.pairs = CandidatePairs(f.of)
  /\ a = Classify => f.pairs = MatchesOf(world, f.of)
Framed(r) ==
  /\ \A a \in Assets, f \in FrameType : Has(r, a, f) => Right(a, f)
  /\ ~MayFallBack /\ run[r].at # Load => run[r].records \subseteq Records

Written(r) ==
  /\ \A n \in 1..Len(golden[r]) :
       /\ Partitions(golden[r][n].clusters, golden[r][n].records)
       /\ Joined(world, golden[r][n])
       /\ ~MayFallBack => golden[r][n].records \subseteq Records
  /\ ~MayFallBack => \A i \in 1..Len(proposals[r]) : proposals[r][i].pairs \subseteq Records \X Records

(* The pairs to review have been written, and will not be again unless the *)
(* checkpoint is lost or cannot be read; so have the golden records.       *)
Held(r) ==
  \/ checkpoint[r][Classify] # None /\ ~(run[r].at = Classify /\ run[r].pc = "unread")
  \/ run[r].at = Classify /\ run[r].pc = "save"
Kept(r) ==
  \/ checkpoint[r][Golden] # None /\ ~(run[r].at = Golden /\ run[r].pc = "unread")
  \/ run[r].at = Golden /\ run[r].pc \in {"publish", "finish", "save"}
Losses == Struck("checkpoint") + Struck("unreadable") + Struck("ambiguous")
Counted(r) ==
  /\ Len(proposals[r]) <= Losses + (IF Held(r) THEN 1 ELSE 0)
  /\ Len(golden[r]) <= Losses + (IF Kept(r) THEN 1 ELSE 0)
  /\ run[r].pc = "unread" => Struck("unreadable") > 0

(* Of records o, which led to golden records or still may, the pairs to    *)
(* review have been proposed.                                              *)
Reaches(r, o) ==
  \/ checkpoint[r][Classify] # None /\ checkpoint[r][Classify].of = o
  \/ run[r].at = Classify /\ Built(run[r]) /\ run[r].out.of = o
  \/ run[r].at = Golden /\ run[r].pc # "end" /\ run[r].data.of = o
  \/ golden[r] # <<>> /\ LastBatch(r).of = o
ToReview(o) == Scored(o, 70..89)
Proposed(r) == {proposals[r][i].pairs : i \in 1..Len(proposals[r])}
Repeatable == Struck("checkpoint") > 0 \/ Struck("unreadable") > 0
Asked(r, o) ==
  /\ ToReview(o) # {} => ToReview(o) \in Proposed(r) \/ Struck("sqlite") > 0
  /\ ToReview(o) = {} => Proposed(r) = {} \/ Repeatable
Begun(r) ==
  \/ proposals[r] # <<>> \/ golden[r] # <<>> \/ run[r].at = Golden
  \/ run[r].at = Classify /\ Built(run[r])
Asking(r) ==
  /\ ~Repeatable /\ Begun(r) => Held(r)
  /\ \A o \in SUBSET Ids : Reaches(r, o) => Asked(r, o)

(* A run that is past its golden records has published those of the batch  *)
(* it went on with.                                                        *)
Over(r) ==
  \/ run[r].at = Golden /\ run[r].pc \in {"finish", "save", "returned", "end"}
  \/ checkpoint[r][Golden] # None
Out(r) == golden[r] # <<>> /\ (Struck("kafka") = 0 => \E n \in Settled(r) : Announced(r, n))
Announcing(r) ==
  /\ Over(r) => Out(r)
  /\ run[r].at = Golden /\ run[r].pc = "finish" /\ Struck("kafka") = 0 =>
       Announced(r, Len(golden[r]))
  /\ run[r].at = Golden /\ run[r].pc = "publish" =>
       /\ golden[r] # <<>>
       /\ Struck("kafka") = 0 =>
            \A c \in LastBatch(r).clusters :
              c \in run[r].clusters \/ <<Len(golden[r]), c>> \in resolved[r]

(* The batches whose completion may have been published.                   *)
Ended(r) ==
  IF run[r].at = Golden /\ run[r].pc \in {"publish", "finish"}
  THEN 1..Len(golden[r]) - 1 ELSE 1..Len(golden[r])
Completing(r) ==
  /\ Struck("kafka") = 0 => finished[r] <= Cardinality({n \in Ended(r) : Announced(r, n)})
  /\ run[r].pc \in {"publish", "finish"} => golden[r] # <<>>

(* Where the provenance of a batch may be.                                 *)
Beside(r, n) ==
  \/ TracedIn(r, n, golden[r][n].store)
  \/ /\ golden[r][n].store = "pg" /\ TracedIn(r, n, "sqlite")
     /\ Struck("pg") > 0 \/ ~world.traceable
Traced(r) == Struck("sqlite") = 0 /\ Over(r) => \E n \in Settled(r) : Beside(r, n)

Inv(r) ==
  /\ Placed(run[r]) /\ Framed(r) /\ Written(r) /\ Counted(r) /\ Asking(r)
  /\ Announcing(r) /\ Completing(r) /\ Traced(r)

(* ------------------------- runs that stay in place ---------------------- *)
SameTables(r) ==
  /\ checkpoint'[r] = checkpoint[r] /\ proposals'[r] = proposals[r] /\ golden'[r] = golden[r]
  /\ provenance'[r] = provenance[r] /\ resolved'[r] = resolved[r] /\ finished'[r] = finished[r]
SamePlace(r) ==
  /\ run'[r].at = run[r].at /\ run'[r].pc = run[r].pc /\ run'[r].data = run[r].data
  /\ run'[r].out = run[r].out /\ run'[r].records = run[r].records /\ run'[r].clusters = run[r].clusters
SameWorld ==
  world' = world /\ production' = production /\ allow_synthetic_data' = allow_synthetic_data

LEMMA RightStays ==
  ASSUME SameWorld, NEW a, NEW f, Right(a, f)
  PROVE  Right(a, f)'
BY DEF SameWorld, MayFallBack, Right, CandidatePairs

LEMMA LossesGrow ==
  ASSUME Grow
  PROVE  /\ Losses \in Nat /\ Losses' \in Nat /\ Losses' >= Losses
         /\ \A kind : Struck(kind)' = 0 => Struck(kind) = 0
         /\ \A kind : Struck(kind) > 0 => Struck(kind)' > 0
         /\ Repeatable => Repeatable'
<1>1. /\ Struck("checkpoint") \in Nat /\ Struck("checkpoint")' \in Nat
      /\ Struck("checkpoint")' >= Struck("checkpoint")
      /\ Struck("unreadable") \in Nat /\ Struck("unreadable")' \in Nat
      /\ Struck("unreadable")' >= Struck("unreadable")
      /\ Struck("ambiguous") \in Nat /\ Struck("ambiguous")' \in Nat
      /\ Struck("ambiguous")' >= Struck("ambiguous")
  BY DEF Grow
<1>2. ASSUME NEW kind
      PROVE  (Struck(kind)' = 0 => Struck(kind) = 0) /\ (Struck(kind) > 0 => Struck(kind)' > 0)
  BY DEF Grow
<1>3. Repeatable => Repeatable'
  BY <1>2 DEF Repeatable
<1>4. Losses \in Nat /\ Losses' \in Nat /\ Losses' >= Losses
  BY <1>1 DEF Losses
<1>. QED  BY <1>2, <1>3, <1>4

(* One more loss.                                                          *)
LEMMA Lost ==
  ASSUME FaultsTyped, NEW kind \in {"checkpoint", "unreadable", "ambiguous"}, Strike(kind)
  PROVE  Losses' = Losses + 1 /\ Struck(kind)' > 0
<1>1. Struck(kind)' = Struck(kind) + 1 /\ Struck(kind) \in Nat
  BY StruckOnce
<1>2. \A other : other # kind => Struck(other)' = Struck(other)
  BY Strikes DEF FaultsTyped, Struck
<1>3. \A other : Struck(other) \in Nat
  BY DEF FaultsTyped, Struck
<1>4. PICK c \in Nat, u \in Nat, a \in Nat :
        c = Struck("checkpoint") /\ u = Struck("unreadable") /\ a = Struck("ambiguous")
  BY <1>3
<1>5. CASE kind = "checkpoint"
  BY <1>1, <1>2, <1>4, <1>5 DEF Losses
<1>6. CASE kind = "unreadable"
  BY <1>1, <1>2, <1>4, <1>6 DEF Losses
<1>7. CASE kind = "ambiguous"
  BY <1>1, <1>2, <1>4, <1>7 DEF Losses
<1>. QED  BY <1>1, <1>5, <1>6, <1>7

(* The batch a run went on with stays where it was, announced and traced.  *)
LEMMA SettledStays ==
  ASSUME SameWorld, Grow, NEW r,
         \/ golden'[r] = golden[r]
         \/ /\ Len(golden[r]) \in Nat /\ Len(golden'[r]) = Len(golden[r]) + 1
            /\ Struck("unreadable") > 0
            /\ \A n \in 1..Len(golden[r]) : golden'[r][n] = golden[r][n],
         resolved[r] \subseteq resolved'[r], provenance'[r] = provenance[r],
         NEW n \in Settled(r)
  PROVE  /\ n \in Settled(r)' /\ (Announced(r, n) => Announced(r, n)')
         /\ Beside(r, n) => Beside(r, n)'
<1>1. golden'[r][n] = golden[r][n]
  BY DEF Settled
<1>2. n \in Settled(r)'
  <2>1. Struck("unreadable") > 0 => Struck("unreadable")' > 0
    BY LossesGrow
  <2>2. n \in 1..Len(golden'[r]) /\ (n = Len(golden'[r]) \/ Struck("unreadable") > 0)
    BY DEF Settled
  <2>. QED  BY <2>1, <2>2 DEF Settled
<1>3. Announced(r, n) => Announced(r, n)'
  BY <1>1 DEF Announced
<1>4. Struck("pg") > 0 => Struck("pg")' > 0
  BY LossesGrow
<1>5. Beside(r, n) => Beside(r, n)'
  BY <1>1, <1>4 DEF Beside, TracedIn, SameWorld
<1>. QED  BY <1>2, <1>3, <1>5

LEMMA OverStays ==
  ASSUME SameWorld, Grow, NEW r, Announcing(r), Traced(r), Over(r)' => Over(r),
         \/ golden'[r] = golden[r]
         \/ /\ Len(golden[r]) \in Nat /\ Len(golden'[r]) = Len(golden[r]) + 1
            /\ Struck("unreadable") > 0 /\ golden'[r] # <<>>
            /\ \A n \in 1..Len(golden[r]) : golden'[r][n] = golden[r][n],
         resolved[r] \subseteq resolved'[r], provenance'[r] = provenance[r]
  PROVE  (Over(r)' => Out(r)') /\ Traced(r)'
<1>1. \A n \in Settled(r) : /\ n \in Settled(r)' /\ (Announced(r, n) => Announced(r, n)')
                            /\ Beside(r, n) => Beside(r, n)'
  BY SettledStays
<1>2. /\ (Struck("kafka") = 0)' => Struck("kafka") = 0
      /\ (Struck("sqlite") = 0)' => Struck("sqlite") = 0
  BY LossesGrow
<1>3. golden[r] # <<>> => golden'[r] # <<>>
  OBVIOUS
<1>4. Over(r)' => Out(r)'
  BY <1>1, <1>2, <1>3 DEF Announcing, Out
<1>5. Traced(r)'
  BY <1>1, <1>2 DEF Traced
<1>. QED  BY <1>4, <1>5

LEMMA AskedStays ==
  ASSUME SameWorld, Grow, NEW r, proposals'[r] = proposals[r], NEW o, Asked(r, o)
  PROVE  Asked(r, o)'
<1>1. ToReview(o)' = ToReview(o)
  BY DEF SameWorld, ToReview, Scored
<1>2. Proposed(r)' = Proposed(r)
  BY DEF Proposed
<1>3. /\ Struck("sqlite") \in Nat /\ Struck("sqlite")' \in Nat /\ Struck("sqlite")' >= Struck("sqlite")
  BY DEF Grow
<1>4. Struck("sqlite") > 0 => Struck("sqlite")' > 0
  BY <1>3
<1>. QED  BY <1>1, <1>2, <1>4, LossesGrow DEF Asked

LEMMA Staying ==
  ASSUME TypeOK, NEW r \in Runs, Inv(r), SameWorld, Grow, SameTables(r), SamePlace(r), Placed(run[r])'
  PROVE  Inv(r)'
<1>1. Framed(r)'
  <2>1. \A a \in Assets, f \in FrameType : Has(r, a, f)' => Has(r, a, f)
    BY DEF Has, Built, SameTables, SamePlace
  <2>2. \A a \in Assets, f \in FrameType : Has(r, a, f)' => Right(a, f)'
    BY <2>1, RightStays DEF Inv, Framed
  <2>. QED  BY <2>2 DEF Inv, Framed, SameWorld, MayFallBack, SamePlace
<1>2. Written(r)'
  BY DEF Inv, Written, SameTables, SameWorld, MayFallBack
<1>3. Counted(r)'
  <2>1. Held(r)' = Held(r) /\ Kept(r)' = Kept(r)
    BY DEF Held, Kept, SameTables, SamePlace
  <2>2. Len(proposals[r]) \in Nat /\ Len(golden[r]) \in Nat
    BY DEF TypeOK
  <2>. QED  BY <2>1, <2>2, LossesGrow DEF Inv, Counted, SameTables, SamePlace
<1>4. Asking(r)'
  <2>1. Held(r)' = Held(r) /\ Begun(r)' = Begun(r) /\ \A o \in SUBSET Ids : Reaches(r, o)' = Reaches(r, o)
    BY DEF Held, Begun, Built, Reaches, LastBatch, SameTables, SamePlace
  <2>2. \A o \in SUBSET Ids : Asked(r, o) => Asked(r, o)'
    BY AskedStays DEF SameTables
  <2>. QED  BY <2>1, <2>2, LossesGrow DEF Inv, Asking
<1>5. Announcing(r)' /\ Traced(r)'
  <2>1. Over(r)' => Over(r)
    BY DEF Over, SameTables, SamePlace
  <2>2. (Over(r)' => Out(r)') /\ Traced(r)'
    BY <2>1, OverStays DEF Inv, SameTables
  <2>. QED  BY <2>2, LossesGrow DEF Inv, Announcing, Announced, LastBatch, SameTables, SamePlace
<1>6. Completing(r)'
  <2>1. {n \in Ended(r) : Announced(r, n)}' = {n \in Ended(r) : Announced(r, n)}
    BY DEF Ended, Announced, SameTables, SamePlace
  <2>. QED  BY <2>1, LossesGrow DEF Inv, Completing, SameTables, SamePlace
<1>. QED  BY <1>1, <1>2, <1>3, <1>4, <1>5, <1>6 DEF Inv

-----------------------------------------------------------------------------
(* Steps of a run *)

Before(r) == TypeOK /\ Inv(r) /\ SameWorld /\ staged' = staged
Good(r) ==
  TypeOK' /\ Inv(r)' /\ Grow /\ \A q \in Runs \ {r} : run'[q] = run[q] /\ SameTables(q)

(* How a run goes on that writes nothing.                                  *)
Ahead(r, n) ==
  /\ run[r].pc \notin {"publish", "finish", "save"} /\ n.pc \notin {"unread", "publish", "finish"}
  /\ Placed(n)
  /\ Built(n) => Right(n.at, n.out)
  /\ n.at # Load /\ n.pc # "end" => Right(n.at - 1, n.data)
  /\ ~MayFallBack /\ n.at # Load => n.records \subseteq Records
  /\ n.pc = "save" => n.at \notin {Classify, Golden}
  /\ n.at = Classify /\ n.pc = "returned" =>
       checkpoint[r][Classify] # None /\ checkpoint[r][Classify] = n.out
  /\ n.at = Golden /\ n.pc = "returned" => checkpoint[r][Golden] # None
  /\ n.at = Golden /\ n.pc # "end" =>
       \/ run[r].at = Golden /\ run[r].pc # "end" /\ n.data = run[r].data
       \/ run[r].at = Classify /\ run[r].pc = "returned" /\ n.data = run[r].out
  /\ n.pc = "end" => run[r].at = Golden /\ run[r].pc = "returned"

LEMMA RunReplaced ==
  ASSUME TypeOK, NEW r \in Runs, NEW n \in RunRecord, run' = [run EXCEPT ![r] = n]
  PROVE  /\ run' \in [Runs -> RunRecord] /\ run'[r] = n
         /\ \A q \in Runs \ {r} : run'[q] = run[q]
BY DEF TypeOK

LEMMA WorldTyped ==
  ASSUME TypeOK, SameWorld
  PROVE  /\ world' \in Worlds /\ production' \in BOOLEAN
         /\ allow_synthetic_data' \in {"unset", "yes", "no"}
BY DEF TypeOK, SameWorld

LEMMA TablesKept ==
  ASSUME TypeOK, UNCHANGED tables
  PROVE  /\ \A q \in Runs : SameTables(q)
         /\ checkpoint' \in [Runs -> [Assets -> FrameType \cup {None}]]
         /\ proposals' \in [Runs -> Seq([store : Store, pairs : SUBSET Pairs])]
         /\ golden' \in [Runs -> Seq(BatchType)]
         /\ provenance' \in [Runs -> Seq([batch : Nat, store : Store])]
         /\ resolved' \in [Runs -> SUBSET (Nat \X SUBSET Ids)]
         /\ finished' \in [Runs -> Nat]
BY DEF TypeOK, tables, SameTables

LEMMA Moving ==
  ASSUME NEW r \in Runs, Before(r), UNCHANGED tables, Faulty,
         NEW n \in RunRecord, run' = [run EXCEPT ![r] = n], Ahead(r, n)
  PROVE  Good(r)
<1>1. TypeOK /\ Inv(r) /\ SameWorld /\ FaultsTyped
  BY DEF Before, TypeOK, FaultsTyped
<1>2. /\ run' \in [Runs -> RunRecord] /\ run'[r] = n
      /\ \A q \in Runs \ {r} : run'[q] = run[q]
  BY <1>1, RunReplaced
<1>3. Grow /\ FaultsTyped'
  BY <1>1, FaultsGrow
<1>4. TypeOK'
  <2>1. staged' \in [Store -> SUBSET Records]
    BY DEF Before, TypeOK
  <2>. QED  BY <1>1, <1>2, <1>3, <2>1, WorldTyped, TablesKept DEF TypeOK, FaultsTyped
<1>5. SameTables(r)
  BY <1>1, TablesKept
<1>6. n.at \in Assets /\ n.data \in FrameType /\ n.out \in FrameType /\ run[r] \in RunRecord
  BY <1>1 DEF TypeOK, RunRecord
<1>7. Framed(r)'
  <2>1. ASSUME NEW a \in Assets, NEW f \in FrameType, Has(r, a, f)' PROVE Right(a, f)
    <3>1. CASE checkpoint'[r][a] # None /\ checkpoint'[r][a] = f
      BY <1>1, <1>5, <3>1 DEF Inv, Framed, Has, SameTables
    <3>2. CASE n.at = a /\ Built(n) /\ n.out = f
      BY <3>2 DEF Ahead
    <3>3. CASE n.at = a + 1 /\ n.pc # "end" /\ n.data = f
      <4>1. n.at # Load /\ n.at - 1 = a
        BY <3>3 DEF Assets, Load
      <4>. QED  BY <3>3, <4>1 DEF Ahead
    <3>. QED  BY <1>2, <2>1, <3>1, <3>2, <3>3 DEF Has, Built
  <2>2. \A a \in Assets, f \in FrameType : Has(r, a, f)' => Right(a, f)'
    BY <1>1, <2>1, RightStays
  <2>3. (~MayFallBack /\ run[r].at # Load => run[r].records \subseteq Records)'
    BY <1>1, <1>2 DEF Ahead, SameWorld, MayFallBack
  <2>. QED  BY <2>2, <2>3 DEF Framed
<1>8. Written(r)'
  BY <1>1, <1>5 DEF Inv, Written, SameTables, SameWorld, MayFallBack
<1>9. (Held(r) => Held(r)') /\ (Kept(r) => Kept(r)')
  BY <1>2, <1>5 DEF Held, Kept, SameTables, Ahead
<1>10. Counted(r)'
  <2>1. Len(proposals[r]) \in Nat /\ Len(golden[r]) \in Nat
    BY <1>1 DEF TypeOK
  <2>2. proposals'[r] = proposals[r] /\ golden'[r] = golden[r]
    BY <1>5 DEF SameTables
  <2>3. Len(proposals[r]) <= Losses' + (IF Held(r) THEN 1 ELSE 0)
        /\ Len(golden[r]) <= Losses' + (IF Kept(r) THEN 1 ELSE 0)
    BY <1>1, <1>3, <2>1, LossesGrow DEF Inv, Counted
  <2>4. Losses' \in Nat
    BY <1>3, LossesGrow
  <2>5. Len(proposals[r]) <= Losses' + (IF Held(r)' THEN 1 ELSE 0)
    BY <1>9, <2>1, <2>3, <2>4
  <2>6. Len(golden[r]) <= Losses' + (IF Kept(r)' THEN 1 ELSE 0)
    BY <1>9, <2>1, <2>3, <2>4
  <2>. QED  BY <1>2, <2>2, <2>5, <2>6 DEF Counted, Ahead
<1>11. Asking(r)'
  <2>1. ASSUME ~Repeatable', Begun(r)' PROVE Held(r)'
    <3>1. ~Repeatable
      BY <1>3, <2>1, LossesGrow
    <3>2. CASE proposals[r] # <<>> \/ golden[r] # <<>>
      BY <1>1, <1>9, <3>1, <3>2 DEF Inv, Asking, Begun
    <3>3. CASE n.at = Golden
      <4>1. run[r].at = Golden \/ (run[r].at = Classify /\ run[r].pc = "returned")
        BY <3>3 DEF Ahead
      <4>. QED  BY <1>1, <1>9, <3>1, <4>1 DEF Inv, Asking, Begun, Built
    <3>4. CASE n.at = Classify /\ Built(n)
      <4>1. checkpoint[r][Classify] # None
        BY <3>4 DEF Ahead, Built
      <4>. QED  BY <1>2, <1>5, <4>1 DEF Held, SameTables, Ahead
    <3>. QED  BY <1>2, <1>5, <2>1, <3>2, <3>3, <3>4 DEF Begun, Built, SameTables
  <2>2. ASSUME NEW o \in SUBSET Ids, Reaches(r, o)' PROVE Reaches(r, o)
    <3>1. CASE n.at = Classify /\ Built(n) /\ n.out.of = o
      BY <3>1 DEF Reaches, Ahead, Built
    <3>2. CASE n.at = Golden /\ n.pc # "end" /\ n.data.of = o
      <4>1. CASE run[r].at = Golden /\ run[r].pc # "end" /\ n.data = run[r].data
        BY <3>2, <4>1 DEF Reaches
      <4>2. CASE run[r].at = Classify /\ run[r].pc = "returned" /\ n.data = run[r].out
        BY <3>2, <4>2 DEF Reaches, Built
      <4>. QED  BY <3>2, <4>1, <4>2 DEF Ahead
    <3>3. CASE checkpoint[r][Classify] # None /\ checkpoint[r][Classify].of = o
      BY <3>3 DEF Reaches
    <3>4. CASE golden[r] # <<>> /\ LastBatch(r).of = o
      BY <3>4 DEF Reaches
    <3>. QED  BY <1>2, <1>5, <2>2, <3>1, <3>2, <3>3, <3>4 DEF Reaches, Built, LastBatch, SameTables
  <2>3. \A o \in SUBSET Ids : Asked(r, o) => Asked(r, o)'
    BY <1>1, <1>3, <1>5, AskedStays DEF SameTables
  <2>. QED  BY <1>1, <2>1, <2>2, <2>3 DEF Inv, Asking
<1>12. Over(r)' => Over(r)
  BY <1>2, <1>5 DEF Over, Ahead, SameTables
<1>13. (Struck("kafka") = 0)' => Struck("kafka") = 0
  BY <1>3, LossesGrow
<1>16. (Over(r)' => Out(r)') /\ Traced(r)'
  BY <1>1, <1>3, <1>5, <1>12, OverStays DEF Inv, SameTables
<1>14. Announcing(r)'
  BY <1>2, <1>16 DEF Announcing, Ahead
<1>15. Completing(r)'
  <2>1. Ended(r)' = 1..Len(golden[r]) /\ Ended(r) = 1..Len(golden[r])
    BY <1>2, <1>5 DEF Ended, Ahead, SameTables
  <2>2. {n1 \in Ended(r) : Announced(r, n1)}' = {n1 \in Ended(r) : Announced(r, n1)}
    BY <1>5, <2>1 DEF Announced, SameTables
  <2>. QED  BY <1>1, <1>2, <1>5, <1>13, <2>2 DEF Inv, Completing, SameTables, Ahead
<1>17. Placed(run[r])'
  BY <1>2 DEF Ahead, Placed
<1>. QED  BY <1>1, <1>2, <1>3, <1>4, <1>7, <1>8, <1>10, <1>11, <1>14, <1>15, <1>16, <1>17, TablesKept
          DEF Good, Inv

(* Only the status of a run changes.                                       *)
LEMMA StandingStill ==
  ASSUME NEW r \in Runs, Before(r), UNCHANGED tables, Faulty,
         NEW n \in RunRecord, run' = [run EXCEPT ![r] = n], Placed(n),
         n.at = run[r].at, n.pc = run[r].pc, n.data = run[r].data, n.out = run[r].out,
         n.records = run[r].records, n.clusters = run[r].clusters
  PROVE  Good(r)
<1>1. TypeOK /\ Inv(r) /\ SameWorld /\ FaultsTyped
  BY DEF Before, TypeOK, FaultsTyped
<1>2. /\ run' \in [Runs -> RunRecord] /\ run'[r] = n
      /\ \A q \in Runs \ {r} : run'[q] = run[q]
  BY <1>1, RunReplaced
<1>3. Grow /\ FaultsTyped'
  BY <1>1, FaultsGrow
<1>4. TypeOK'
  <2>1. staged' \in [Store -> SUBSET Records]
    BY DEF Before, TypeOK
  <2>. QED  BY <1>1, <1>2, <1>3, <2>1, WorldTyped, TablesKept DEF TypeOK, FaultsTyped
<1>5. SameTables(r)
  BY <1>1, TablesKept
<1>6. SamePlace(r) /\ Placed(run[r])'
  BY <1>2 DEF SamePlace, Placed
<1>. QED  BY <1>1, <1>2, <1>3, <1>4, <1>5, <1>6, Staying, TablesKept DEF Good

LEMMA InputRight ==
  ASSUME NEW r \in Runs, Before(r), run[r].at # Load, run[r].pc # "end"
  PROVE  Right(run[r].at - 1, run[r].data)
<1>1. run[r].at - 1 \in Assets /\ run[r].at = (run[r].at - 1) + 1 /\ run[r].data \in FrameType
  BY DEF Before, TypeOK, RunRecord, Assets, Load
<1>. QED  BY <1>1 DEF Before, Inv, Framed, Has

LEMMA OutputRight ==
  ASSUME NEW r \in Runs, Before(r), Built(run[r])
  PROVE  Right(run[r].at, run[r].out)
BY DEF Before, TypeOK, RunRecord, Inv, Framed, Has

LEMMA Failing ==
  ASSUME NEW r \in Runs, Before(r), UNCHANGED tables, Faulty,
         run[r].status = "running", run[r].pc \in {"ready", "unread", "returned"}, StepFails(r)
  PROVE  Good(r)
<1>. DEFINE n == AfterFailure(run[r])
<1>1. run[r] \in RunRecord /\ Placed(run[r])
  BY DEF Before, TypeOK, Inv
<1>2. /\ n \in RunRecord /\ n.at = run[r].at /\ n.data = run[r].data
      /\ n.records = run[r].records /\ n.clusters = run[r].clusters
      /\ \/ n.status = "running" /\ n.pc = "ready"
         \/ n.status = "failed" /\ n.pc = run[r].pc /\ n.out = run[r].out
  BY <1>1, FailureMade
<1>3. run' = [run EXCEPT ![r] = n]
  BY DEF StepFails
<1>. HIDE DEF n
<1>4. CASE n.status = "running" /\ n.pc = "ready"
  <2>1. n.at # Load => Right(n.at - 1, n.data)
    BY <1>2, InputRight
  <2>2. ~MayFallBack /\ n.at # Load => n.records \subseteq Records
    BY <1>2 DEF Before, Inv, Framed
  <2>3. Ahead(r, n)
    BY <1>2, <1>4, <2>1, <2>2 DEF Ahead, Placed, Built
  <2>. QED  BY <1>2, <1>3, <2>3, Moving
<1>5. CASE n.status = "failed" /\ n.pc = run[r].pc /\ n.out = run[r].out
  <2>1. Placed(n)
    BY <1>1, <1>2, <1>5 DEF Placed
  <2>. QED  BY <1>2, <1>3, <1>5, <2>1, StandingStill
<1>. QED  BY <1>2, <1>4, <1>5

LEMMA Restarting ==
  ASSUME NEW r \in Runs, Before(r), Begin(r) \/ Retry(r)
  PROVE  Good(r)
<1>1. run[r] \in RunRecord /\ Placed(run[r]) /\ run[r].retries \in 0..MaxRetries
      /\ MaxRetries \in Nat
  BY ResolutionAssumption DEF ResolutionAssumption, Before, TypeOK, Inv, RunRecord
<1>2. PICK k \in 0..MaxRetries : run' = [run EXCEPT ![r] = Fresh(k)]
  BY <1>1 DEF Begin, Retry
<1>3. Faulty /\ UNCHANGED tables /\ run[r].status \in {"new", "failed"}
  BY DEF Begin, Retry, Faulty, Sound
<1>4. /\ Fresh(k) \in RunRecord /\ Fresh(k).at = Load /\ Fresh(k).pc = "ready"
      /\ Fresh(k).status = "running"
  BY FreshMade
<1>5. Ahead(r, Fresh(k))
  BY <1>1, <1>3, <1>4 DEF Ahead, Placed, Built, Load, Classify, Golden
<1>. QED  BY <1>2, <1>3, <1>4, <1>5, Moving

LEMMA Building ==
  ASSUME NEW r \in Runs, Before(r), UNCHANGED tables, Faulty,
         run[r].status = "running", run[r].pc \in {"ready", "unread"},
         NEW f \in FrameType, NEW p \in {"save", "returned"}, Builds(r, f, p),
         Right(run[r].at, f),
         \/ run[r].at \in {Load, Block, Score}
         \/ p = "returned" /\ checkpoint[r][run[r].at] # None /\ checkpoint[r][run[r].at] = f
  PROVE  Good(r)
<1>. DEFINE n == [run[r] EXCEPT !.out = f, !.pc = p]
<1>1. run[r] \in RunRecord /\ Placed(run[r])
  BY DEF Before, TypeOK, Inv
<1>2. n \in RunRecord /\ n.at = run[r].at /\ n.data = run[r].data /\ n.out = f /\ n.pc = p
      /\ n.records = run[r].records /\ n.status = "running"
  <2>1. n \in RunRecord
    BY <1>1, FieldsKept DEF Pc
  <2>. QED  BY <1>1, <2>1 DEF RunRecord
<1>3. run' = [run EXCEPT ![r] = n]
  BY <1>1 DEF Builds, Before, TypeOK
<1>. HIDE DEF n
<1>4. n.at # Load => Right(n.at - 1, n.data)
  BY <1>2, InputRight
<1>5. ~MayFallBack /\ n.at # Load => n.records \subseteq Records
  BY <1>2 DEF Before, Inv, Framed
<1>6. Ahead(r, n)
  <2>1. Placed(n)
    BY <1>2 DEF Placed
  <2>2. CASE run[r].at \in {Load, Block, Score}
    BY <1>2, <1>4, <1>5, <2>1, <2>2 DEF Ahead, Built, Load, Block, Score, Classify, Golden
  <2>3. CASE p = "returned" /\ checkpoint[r][run[r].at] # None /\ checkpoint[r][run[r].at] = f
    BY <1>2, <1>4, <1>5, <2>1, <2>3 DEF Ahead, Built
  <2>. QED  BY <2>2, <2>3
<1>. QED  BY <1>2, <1>3, <1>6, Moving

LEMMA Reusing ==
  ASSUME NEW r \in Runs, Before(r), Reuse(r)
  PROVE  Good(r)
<1>1. /\ run[r].at \in Assets /\ checkpoint[r] \in [Assets -> FrameType \cup {None}]
  BY DEF Before, TypeOK, RunRecord
<1>2. PICK f \in FrameType : f = checkpoint[r][run[r].at]
  BY <1>1 DEF Reuse, Reusable
<1>3. Right(run[r].at, f)
  BY <1>1, <1>2 DEF Before, Inv, Framed, Has, Reuse, Reusable
<1>4. Builds(r, f, "returned") /\ UNCHANGED tables /\ Faulty
  BY <1>2 DEF Reuse, Builds, Faulty, Sound
<1>. QED  BY <1>2, <1>3, <1>4, Building DEF Reuse, Reusable

LEMMA Loading ==
  ASSUME NEW r \in Runs, Before(r), LoadStaged(r)
  PROVE  Good(r)
<1>1. /\ run[r].status = "running" /\ run[r].pc \in {"ready", "unread"} /\ run[r].at = Load /\ UNCHANGED tables
  BY DEF LoadStaged, Executes, At
<1>2. Faulty
  BY Strikes DEF LoadStaged, Faulty
<1>3. /\ staged["pg"] \in SUBSET Records /\ staged["sqlite"] \in SUBSET Records
      /\ Records \subseteq Ids /\ Synthetic \subseteq Ids
  BY DEF Before, TypeOK, Store, Ids
<1>4. ASSUME NEW o \in SUBSET Ids, NEW p \in {"save", "returned"}, Builds(r, Frame(o, {}), p),
             ~MayFallBack => o \subseteq Records
      PROVE  Good(r)
  <2>1. Frame(o, {}) \in FrameType /\ Right(run[r].at, Frame(o, {}))
    BY <1>1, <1>4, FramesMade DEF Right, Load, Block, Score, Classify
  <2>. QED  BY <1>1, <1>2, <1>4, <2>1, Building
<1>5. CASE StepFails(r)
  BY <1>1, <1>2, <1>5, Failing
<1>6. \/ Builds(r, Frame(staged["pg"], {}), "returned") \/ Builds(r, Frame(staged["sqlite"], {}), "returned")
      \/ (MayFallBack /\ Builds(r, Frame(Synthetic, {}), "save")) \/ StepFails(r)
  BY DEF LoadStaged
<1>7. CASE Builds(r, Frame(staged["pg"], {}), "returned")
  BY <1>3, <1>4, <1>7
<1>8. CASE Builds(r, Frame(staged["sqlite"], {}), "returned")
  BY <1>3, <1>4, <1>8
<1>9. CASE MayFallBack /\ Builds(r, Frame(Synthetic, {}), "save")
  BY <1>3, <1>4, <1>9
<1>. QED  BY <1>5, <1>6, <1>7, <1>8, <1>9

LEMMA Comparing ==
  ASSUME NEW r \in Runs, Before(r), Compare(r)
  PROVE  Good(r)
<1>1. /\ run[r].status = "running" /\ run[r].pc \in {"ready", "unread"} /\ run[r].at \in {Block, Score}
      /\ UNCHANGED tables
  BY DEF Compare, Executes, At
<1>2. Faulty
  BY Strikes DEF Compare, Faulty
<1>3. run[r].data \in FrameType /\ Right(run[r].at - 1, run[r].data)
  <2>1. run[r].at # Load /\ run[r].pc # "end"
    BY <1>1 DEF Load, Block, Score
  <2>. QED  BY <2>1, InputRight DEF Before, TypeOK, RunRecord
<1>4. CASE StepFails(r)
  BY <1>1, <1>2, <1>4, Failing
<1>5. CASE run[r].at = Block
           /\ Builds(r, Frame(run[r].data.of, CandidatePairs(run[r].data.of)), "save")
  <2>1. CandidatePairs(run[r].data.of) \in SUBSET Pairs
    BY DEF CandidatePairs
  <2>2. PICK f \in FrameType : f = Frame(run[r].data.of, CandidatePairs(run[r].data.of))
    BY <1>3, <2>1, FramesMade
  <2>3. f.of = run[r].data.of /\ f.pairs = CandidatePairs(f.of)
    BY <1>3, <2>1, <2>2, FramesMade
  <2>4. Right(run[r].at, f)
    BY <1>1, <1>3, <1>5, <2>3 DEF Right, Block, Classify
  <2>. QED  BY <1>1, <1>2, <1>5, <2>2, <2>4, Building
<1>6. CASE run[r].at = Score /\ Builds(r, run[r].data, "save")
  <2>1. Right(run[r].at, run[r].data)
    BY <1>3, <1>6 DEF Right, Score, Block, Classify
  <2>. QED  BY <1>1, <1>2, <1>3, <1>6, <2>1, Building
<1>. QED  BY <1>4, <1>5, <1>6 DEF Compare, Executes, At

LEMMA Returning ==
  ASSUME NEW r \in Runs, Before(r), Return(r)
  PROVE  Good(r)
<1>1. run[r].status = "running" /\ run[r].pc = "returned" /\ UNCHANGED tables /\ Faulty
  BY Strikes DEF Return, Faulty
<1>2. run[r] \in RunRecord /\ run[r].at \in Assets /\ run[r].out \in FrameType
      /\ Right(run[r].at, run[r].out)
  BY <1>1, OutputRight DEF Before, TypeOK, RunRecord, Built
<1>3. CASE StepFails(r)
  BY <1>1, <1>3, Failing
<1>4. CASE run' = [run EXCEPT ![r] = Passed(run[r])]
  <2>. DEFINE n == Passed(run[r])
  <2>1. /\ n \in RunRecord /\ n.data = run[r].out /\ n.status = "running"
        /\ n.records = IF run[r].at = Load THEN run[r].out.of ELSE run[r].records
        /\ run[r].at = Golden => n.at = Golden /\ n.pc = "end"
        /\ run[r].at # Golden => n.at = run[r].at + 1 /\ n.pc = "ready"
    BY <1>1, <1>2, PassedMade
  <2>. HIDE DEF n
  <2>2. n.pc # "end" => Right(n.at - 1, n.data) /\ run[r].at = n.at - 1
    BY <1>2, <2>1 DEF Assets
  <2>3. ~MayFallBack => n.records \subseteq Records
    BY <1>2, <2>1 DEF Right, Before, Inv, Framed
  <2>4. n.at = Golden /\ n.pc # "end" => run[r].at = Classify
    BY <2>2 DEF Golden, Classify
  <2>5. Placed(n)
    BY <2>1 DEF Placed
  <2>6. Ahead(r, n)
    BY <1>1, <2>1, <2>2, <2>3, <2>4, <2>5 DEF Ahead, Built
  <2>7. run' = [run EXCEPT ![r] = n]
    BY <1>4 DEF n
  <2>. QED  BY <1>1, <2>1, <2>6, <2>7, Moving
<1>. QED  BY <1>3, <1>4 DEF Return

LEMMA Completed ==
  ASSUME NEW r \in Runs, Before(r), Complete(r)
  PROVE  Good(r)
<1>1. run[r] \in RunRecord /\ run[r].pc = "end" /\ run[r].at = Golden /\ UNCHANGED tables /\ Faulty
  BY Strikes DEF Complete, At, Faulty, Before, TypeOK
<1>2. PICK s \in {"completed", "failed"} : run' = [run EXCEPT ![r].status = s]
  BY DEF Complete
<1>. DEFINE n == [run[r] EXCEPT !.status = s]
<1>3. /\ n \in RunRecord /\ n.at = run[r].at /\ n.pc = run[r].pc /\ n.data = run[r].data
      /\ n.out = run[r].out /\ n.records = run[r].records /\ n.clusters = run[r].clusters
  BY <1>1, FieldsKept DEF RunRecord, Status
<1>4. run' = [run EXCEPT ![r] = n]
  BY <1>2 DEF Before, TypeOK
<1>5. Placed(n)
  BY <1>1, <1>3 DEF Placed
<1>. HIDE DEF n
<1>. QED  BY <1>1, <1>3, <1>4, <1>5, StandingStill

-----------------------------------------------------------------------------
(* Steps that write *)

TablesTyped ==
  /\ checkpoint \in [Runs -> [Assets -> FrameType \cup {None}]]
  /\ proposals \in [Runs -> Seq([store : Store, pairs : SUBSET Pairs])]
  /\ golden \in [Runs -> Seq(BatchType)]
  /\ provenance \in [Runs -> Seq([batch : Nat, store : Store])]
  /\ resolved \in [Runs -> SUBSET (Nat \X SUBSET Ids)]
  /\ finished \in [Runs -> Nat]

LEMMA Assembled ==
  ASSUME NEW r \in Runs, Before(r), Faulty, NEW n \in RunRecord, run' = [run EXCEPT ![r] = n],
         TablesTyped', \A q \in Runs \ {r} : SameTables(q), Inv(r)'
  PROVE  Good(r)
<1>1. TypeOK /\ SameWorld /\ FaultsTyped /\ staged' \in [Store -> SUBSET Records]
  BY DEF Before, TypeOK, FaultsTyped
<1>2. run' \in [Runs -> RunRecord] /\ \A q \in Runs \ {r} : run'[q] = run[q]
  BY <1>1, RunReplaced
<1>3. Grow /\ FaultsTyped'
  BY <1>1, FaultsGrow
<1>4. TypeOK'
  BY <1>1, <1>2, <1>3, WorldTyped DEF TypeOK, TablesTyped, FaultsTyped
<1>. QED  BY <1>2, <1>3, <1>4 DEF Good

LEMMA Begins ==
  ASSUME NEW r \in Runs, Before(r), Faulty, NEW n \in RunRecord, run' = [run EXCEPT ![r] = n]
  PROVE  /\ TypeOK /\ TablesTyped /\ Inv(r) /\ SameWorld /\ run'[r] = n /\ run[r] \in RunRecord
         /\ FaultsTyped /\ Grow
BY RunReplaced, FaultsGrow DEF Before, TypeOK, TablesTyped, FaultsTyped

(* What is over, and what was announced and traced, stays so while nothing *)
(* of it is written.                                                       *)
LEMMA EndStays ==
  ASSUME TypeOK, NEW r \in Runs, Inv(r), SameWorld, Grow,
         golden'[r] = golden[r], resolved'[r] = resolved[r], finished'[r] = finished[r],
         provenance'[r] = provenance[r],
         run[r].pc \notin {"publish", "finish"}, run'[r].pc \notin {"publish", "finish"},
         Over(r)' => Over(r)
  PROVE  Announcing(r)' /\ Completing(r)' /\ Traced(r)'
<1>1. (Struck("kafka") = 0)' => Struck("kafka") = 0
  BY LossesGrow
<1>2. Announcing(r)' /\ Traced(r)'
  <2>1. (Over(r)' => Out(r)') /\ Traced(r)'
    BY OverStays DEF Inv
  <2>. QED  BY <2>1 DEF Announcing
<1>3. Completing(r)'
  <2>1. Ended(r)' = 1..Len(golden[r]) /\ Ended(r) = 1..Len(golden[r])
    BY DEF Ended
  <2>2. {k \in Ended(r) : Announced(r, k)}' = {k \in Ended(r) : Announced(r, k)}
    BY <2>1 DEF Announced
  <2>. QED  BY <1>1, <2>2 DEF Inv, Completing
<1>. QED  BY <1>2, <1>3

LEMMA FramedStays ==
  ASSUME TypeOK, NEW r \in Runs, Inv(r), SameWorld,
         \A a \in Assets, f \in FrameType : Has(r, a, f)' => Has(r, a, f) \/ Right(a, f),
         run'[r].at = run[r].at, run'[r].records = run[r].records
  PROVE  Framed(r)'
<1>1. \A a \in Assets, f \in FrameType : Has(r, a, f)' => Right(a, f)'
  BY RightStays DEF Inv, Framed
<1>. QED  BY <1>1 DEF Inv, Framed, SameWorld, MayFallBack

(* A checkpoint cannot be read: what it kept from being done again is done *)
(* again.                                                                  *)
LEMMA Unreading ==
  ASSUME NEW r \in Runs, Before(r), Unreadable(r)
  PROVE  Good(r)
<1>1. /\ Faulty /\ run[r].status = "running" /\ run[r].pc = "ready" /\ UNCHANGED tables
      /\ run[r] \in RunRecord
  BY Strikes DEF Unreadable, Faulty, Before, TypeOK
<1>2. PICK n \in RunRecord : n = [run[r] EXCEPT !.pc = "unread"]
  BY <1>1, FieldsKept DEF Pc
<1>3. /\ n.at = run[r].at /\ n.pc = "unread" /\ n.data = run[r].data
      /\ n.records = run[r].records /\ n.status = "running"
  BY <1>1, <1>2 DEF RunRecord
<1>4. run' = [run EXCEPT ![r] = n]
  BY <1>2 DEF Unreadable, Before, TypeOK
<1>5. /\ TypeOK /\ TablesTyped /\ Inv(r) /\ SameWorld /\ run'[r] = n /\ FaultsTyped /\ Grow
  BY <1>1, <1>4, Begins
<1>6. TablesTyped' /\ \A q \in Runs : SameTables(q)
  BY <1>1, <1>5, TablesKept DEF TablesTyped
<1>7. Losses' = Losses + 1 /\ Struck("unreadable")' > 0 /\ Repeatable'
  BY <1>5, Lost DEF Unreadable, Repeatable
<1>8. Framed(r)'
  <2>1. \A a \in Assets, f \in FrameType : Has(r, a, f)' => Has(r, a, f)
    BY <1>1, <1>3, <1>5, <1>6 DEF Has, Built, SameTables
  <2>. QED  BY <1>3, <1>5, <2>1, FramedStays
<1>9. Counted(r)'
  <2>1. Len(proposals[r]) \in Nat /\ Len(golden[r]) \in Nat /\ Losses \in Nat
    BY <1>5, LossesGrow DEF TablesTyped
  <2>2. Len(proposals[r]) <= Losses + 1 /\ Len(golden[r]) <= Losses + 1
    BY <1>5, <2>1 DEF Inv, Counted
  <2>3. /\ Len(proposals[r]) <= Losses' + (IF Held(r)' THEN 1 ELSE 0)
        /\ Len(golden[r]) <= Losses' + (IF Kept(r)' THEN 1 ELSE 0)
    BY <1>7, <2>1, <2>2
  <2>. QED  BY <1>6, <1>7, <2>3 DEF Counted, SameTables
<1>10. Asking(r)'
  <2>1. \A o \in SUBSET Ids : Reaches(r, o)' => Reaches(r, o)
    BY <1>1, <1>3, <1>5, <1>6 DEF Reaches, Built, LastBatch, SameTables
  <2>2. \A o \in SUBSET Ids : Asked(r, o) => Asked(r, o)'
    BY <1>5, <1>6, AskedStays DEF SameTables
  <2>. QED  BY <1>5, <1>7, <2>1, <2>2 DEF Inv, Asking
<1>11. Announcing(r)' /\ Completing(r)' /\ Traced(r)'
  <2>1. Over(r)' => Over(r)
    BY <1>3, <1>5, <1>6 DEF Over, SameTables
  <2>. QED  BY <1>1, <1>3, <1>5, <1>6, <2>1, EndStays DEF SameTables
<1>12. Written(r)' /\ Placed(run[r])'
  BY <1>3, <1>5, <1>6 DEF Inv, Written, Placed, SameWorld, MayFallBack, SameTables
<1>13. Inv(r)'
  BY <1>8, <1>9, <1>10, <1>11, <1>12 DEF Inv
<1>. QED  BY <1>1, <1>4, <1>6, <1>13, Assembled

(* A checkpoint is saved, or lost.                                         *)
LEMMA Saving ==
  ASSUME NEW r \in Runs, Before(r), SaveCheckpoint(r)
  PROVE  Good(r)
<1>. DEFINE n == [run[r] EXCEPT !.pc = "returned"]
<1>1. Faulty /\ run[r].status = "running" /\ run[r].pc = "save"
      /\ UNCHANGED <<proposals, golden, provenance, resolved, finished>>
  BY Strikes DEF SaveCheckpoint, Faulty
<1>2. run' = [run EXCEPT ![r] = n]
  BY DEF SaveCheckpoint, Before, TypeOK
<1>3. run[r] \in RunRecord
  BY DEF Before, TypeOK
<1>4. n \in RunRecord
  BY <1>3, FieldsKept DEF Pc
<1>5. /\ n.at = run[r].at /\ n.pc = "returned" /\ n.data = run[r].data /\ n.out = run[r].out
      /\ n.records = run[r].records /\ n.clusters = run[r].clusters /\ n.status = "running"
  BY <1>1, <1>3 DEF RunRecord
<1>. HIDE DEF n
<1>6. /\ TypeOK /\ TablesTyped /\ Inv(r) /\ SameWorld /\ run'[r] = n /\ FaultsTyped /\ Grow
  BY <1>1, <1>2, <1>4, Begins
<1>7. run[r].out \in FrameType /\ run[r].out # None /\ run[r].at \in Assets
  BY <1>3, ResolutionAssumption DEF ResolutionAssumption, RunRecord, FrameType
<1>8. \/ Sound /\ checkpoint' = [checkpoint EXCEPT ![r][run[r].at] = run[r].out]
      \/ Strike("checkpoint") /\ checkpoint' = checkpoint
      \/ Strike("checkpoint") /\ checkpoint' = [checkpoint EXCEPT ![r][run[r].at] = None]
  BY DEF SaveCheckpoint
<1>9. checkpoint' \in [Runs -> [Assets -> FrameType \cup {None}]]
      /\ \A q \in Runs \ {r} : checkpoint'[q] = checkpoint[q]
  <2>1. CASE checkpoint' = [checkpoint EXCEPT ![r][run[r].at] = run[r].out]
    <3>1. checkpoint[r] \in [Assets -> FrameType \cup {None}]
      BY <1>6 DEF TablesTyped
    <3>2. [checkpoint[r] EXCEPT ![run[r].at] = run[r].out] \in [Assets -> FrameType \cup {None}]
      BY <1>7, <3>1
    <3>3. checkpoint' = [checkpoint EXCEPT ![r] = [checkpoint[r] EXCEPT ![run[r].at] = run[r].out]]
      BY <1>6, <2>1 DEF TablesTyped
    <3>. QED  BY <1>6, <3>2, <3>3 DEF TablesTyped
  <2>2. CASE checkpoint' = [checkpoint EXCEPT ![r][run[r].at] = None]
    <3>1. checkpoint[r] \in [Assets -> FrameType \cup {None}]
      BY <1>6 DEF TablesTyped
    <3>2. [checkpoint[r] EXCEPT ![run[r].at] = None] \in [Assets -> FrameType \cup {None}]
      BY <3>1
    <3>3. checkpoint' = [checkpoint EXCEPT ![r] = [checkpoint[r] EXCEPT ![run[r].at] = None]]
      BY <1>6, <2>2 DEF TablesTyped
    <3>. QED  BY <1>6, <3>2, <3>3 DEF TablesTyped
  <2>. QED  BY <1>6, <1>8, <2>1, <2>2 DEF TablesTyped
<1>10. \A a \in Assets : checkpoint'[r][a] # None =>
         \/ checkpoint'[r][a] = checkpoint[r][a]
         \/ a = run[r].at /\ checkpoint'[r][a] = run[r].out
  <2>1. CASE checkpoint' = [checkpoint EXCEPT ![r][run[r].at] = run[r].out]
    <3>1. checkpoint'[r] = [checkpoint[r] EXCEPT ![run[r].at] = run[r].out]
      BY <1>6, <2>1 DEF TablesTyped
    <3>2. checkpoint[r] \in [Assets -> FrameType \cup {None}]
      BY <1>6 DEF TablesTyped
    <3>. QED  BY <1>7, <3>1, <3>2
  <2>2. CASE checkpoint' = [checkpoint EXCEPT ![r][run[r].at] = None]
    <3>1. checkpoint'[r] = [checkpoint[r] EXCEPT ![run[r].at] = None]
      BY <1>6, <2>2 DEF TablesTyped
    <3>2. checkpoint[r] \in [Assets -> FrameType \cup {None}]
      BY <1>6 DEF TablesTyped
    <3>. QED  BY <1>7, <3>1, <3>2
  <2>. QED  BY <1>8, <2>1, <2>2
<1>11. Framed(r)'
  <2>1. \A a \in Assets, f \in FrameType : Has(r, a, f)' => Has(r, a, f)
    BY <1>1, <1>5, <1>6, <1>10 DEF Has, Built
  <2>. QED  BY <1>5, <1>6, <2>1, FramedStays
<1>12. \/ (Held(r) => Held(r)') /\ (Kept(r) => Kept(r)') /\ Sound
       \/ Losses' = Losses + 1 /\ Repeatable'
  <2>1. CASE Sound /\ checkpoint' = [checkpoint EXCEPT ![r][run[r].at] = run[r].out]
    <3>1. \A a \in Assets : /\ checkpoint[r][a] # None => checkpoint'[r][a] # None
                            /\ a = run[r].at => checkpoint'[r][a] # None
      BY <1>6, <1>7, <2>1 DEF TablesTyped
    <3>2. Classify \in Assets /\ Golden \in Assets
      BY DEF Classify, Golden, Assets
    <3>. QED  BY <1>1, <1>5, <1>6, <2>1, <3>1, <3>2 DEF Held, Kept
  <2>2. CASE Strike("checkpoint")
    BY <1>6, <2>2, Lost DEF Repeatable
  <2>. QED  BY <1>8, <2>1, <2>2
<1>13. Counted(r)'
  <2>1. Len(proposals[r]) \in Nat /\ Len(golden[r]) \in Nat /\ Losses \in Nat /\ Losses' \in Nat
        /\ Losses' >= Losses
    BY <1>6, LossesGrow DEF TablesTyped
  <2>2. Len(proposals[r]) <= Losses + (IF Held(r) THEN 1 ELSE 0)
        /\ Len(golden[r]) <= Losses + (IF Kept(r) THEN 1 ELSE 0)
    BY <1>6 DEF Inv, Counted
  <2>3. Len(proposals[r]) <= Losses' + (IF Held(r)' THEN 1 ELSE 0)
    BY <1>12, <2>1, <2>2
  <2>4. Len(golden[r]) <= Losses' + (IF Kept(r)' THEN 1 ELSE 0)
    BY <1>12, <2>1, <2>2
  <2>. QED  BY <1>1, <1>5, <1>6, <2>3, <2>4 DEF Counted
<1>14. Asking(r)'
  <2>1. Begun(r)' => Begun(r)
    BY <1>1, <1>5, <1>6 DEF Begun, Built
  <2>2. \A o \in SUBSET Ids : Reaches(r, o)' => Reaches(r, o)
    <3>1. Classify \in Assets
      BY DEF Classify, Assets
    <3>. QED  BY <1>1, <1>5, <1>6, <1>10, <3>1 DEF Reaches, Built, LastBatch
  <2>3. \A o \in SUBSET Ids : Asked(r, o) => Asked(r, o)'
    BY <1>1, <1>6, AskedStays
  <2>4. ~Repeatable' => ~Repeatable
    BY <1>6, LossesGrow
  <2>. QED  BY <1>6, <1>12, <2>1, <2>2, <2>3, <2>4 DEF Inv, Asking
<1>15. Announcing(r)' /\ Completing(r)' /\ Traced(r)'
  <2>1. Over(r)' => Over(r)
    <3>1. Golden \in Assets
      BY DEF Golden, Assets
    <3>. QED  BY <1>1, <1>5, <1>6, <1>10, <3>1 DEF Over
  <2>. QED  BY <1>1, <1>5, <1>6, <2>1, EndStays
<1>16. Written(r)' /\ Placed(run[r])'
  BY <1>1, <1>5, <1>6 DEF Inv, Written, Placed, SameWorld, MayFallBack
<1>17. TablesTyped' /\ \A q \in Runs \ {r} : SameTables(q)
  BY <1>1, <1>6, <1>9 DEF TablesTyped, SameTables
<1>18. Inv(r)'
  BY <1>11, <1>13, <1>14, <1>15, <1>16 DEF Inv
<1>. QED  BY <1>1, <1>2, <1>4, <1>17, <1>18, Assembled

(* ------------------------- pairs to be reviewed ------------------------- *)
LEMMA ReviewIs ==
  ASSUME TypeOK, NEW f, f.pairs = CandidatePairs(f.of)
  PROVE  Decided(f.pairs, "review") = ToReview(f.of)
<1>1. \A p \in Pairs : world.score[p] \in 0..100
  BY ResolutionAssumption DEF ResolutionAssumption, TypeOK
<1>2. ASSUME NEW p \in Pairs PROVE Decision(p) = "review" <=> world.score[p] \in 70..89
  <2>1. PICK k \in 0..100 : k = world.score[p]
    BY <1>1
  <2>2. CASE k >= 90
    <3>1. world.score[p] >= 90 /\ world.score[p] \notin 70..89
      BY <2>1, <2>2
    <3>2. Decision(p) = "match"
      BY <3>1 DEF Decision
    <3>. QED  BY <3>1, <3>2
  <2>3. CASE k < 90 /\ k >= 70
    <3>1. ~(world.score[p] >= 90) /\ world.score[p] >= 70 /\ world.score[p] \in 70..89
      BY <2>1, <2>3
    <3>. QED  BY <3>1 DEF Decision
  <2>4. CASE k < 70
    <3>1. ~(world.score[p] >= 90) /\ ~(world.score[p] >= 70) /\ world.score[p] \notin 70..89
      BY <2>1, <2>4
    <3>. QED  BY <3>1 DEF Decision
  <2>. QED  BY <2>1, <2>2, <2>3, <2>4
<1>. QED  BY <1>2 DEF Decided, CandidatePairs, ToReview, Scored

LEMMA MatchIs ==
  ASSUME TypeOK, NEW f, f.pairs = CandidatePairs(f.of)
  PROVE  Decided(f.pairs, "match") = MatchesOf(world, f.of)
<1>1. \A p \in Pairs : world.score[p] \in 0..100
  BY ResolutionAssumption DEF ResolutionAssumption, TypeOK
<1>2. ASSUME NEW p \in Pairs PROVE Decision(p) = "match" <=> world.score[p] \in 90..100
  <2>1. PICK k \in 0..100 : k = world.score[p]
    BY <1>1
  <2>2. CASE k >= 90
    <3>1. world.score[p] >= 90 /\ world.score[p] \in 90..100
      BY <2>1, <2>2
    <3>. QED  BY <3>1 DEF Decision
  <2>3. CASE k < 90
    <3>1. ~(world.score[p] >= 90) /\ world.score[p] \notin 90..100
      BY <2>1, <2>3
    <3>2. Decision(p) \in {"review", "non_match"}
      BY <3>1 DEF Decision
    <3>. QED  BY <3>1, <3>2
  <2>. QED  BY <2>1, <2>2, <2>3
<1>. QED  BY <1>2 DEF Decided, CandidatePairs, MatchesOf

LEMMA Proposing ==
  ASSUME TypeOK, NEW r \in Runs, NEW stores \in {<<"pg">>, <<"sqlite">>, <<"pg", "sqlite">>},
         NEW pairs \in SUBSET Pairs, pairs = Decided(run[r].data.pairs, "review"),
         Propose(r, stores)
  PROVE  /\ proposals' \in [Runs -> Seq([store : Store, pairs : SUBSET Pairs])]
         /\ \A q \in Runs \ {r} : proposals'[q] = proposals[q]
         /\ Len(proposals'[r]) = Len(proposals[r]) + Len(stores)
         /\ Proposed(r)' = Proposed(r) \cup {pairs}
<1>. DEFINE S == [store : Store, pairs : SUBSET Pairs]
            more == [i \in 1..Len(stores) |-> [store |-> stores[i], pairs |-> pairs]]
<1>1. Len(stores) \in {1, 2} /\ \A i \in 1..Len(stores) : stores[i] \in Store
  BY DEF Store
<1>2. more \in Seq(S) /\ Len(more) = Len(stores)
  <2>1. more \in [1..Len(stores) -> S]
    BY <1>1
  <2>. QED  BY <1>1, <2>1, IsASeq, LenProperties
<1>3. proposals' = [proposals EXCEPT ![r] = proposals[r] \o more]
  BY DEF Propose, TypeOK
<1>4. \A i \in 1..Len(more) : more[i].pairs = pairs
  BY <1>2
<1>. HIDE DEF more
<1>5. proposals[r] \in Seq(S)
  BY DEF TypeOK
<1>6. /\ proposals[r] \o more \in Seq(S)
      /\ Len(proposals[r] \o more) = Len(proposals[r]) + Len(more)
      /\ \A i \in 1..Len(proposals[r]) : (proposals[r] \o more)[i] = proposals[r][i]
      /\ \A i \in 1..Len(more) : (proposals[r] \o more)[Len(proposals[r]) + i] = more[i]
  <2>. DEFINE old == proposals[r]
  <2>1. old \in Seq(S) /\ more \in Seq(S) /\ Len(old) \in Nat /\ Len(more) \in Nat
    BY <1>1, <1>2, <1>5
  <2>. HIDE DEF old, S
  <2>2. /\ old \o more \in Seq(S)
        /\ Len(old \o more) = Len(old) + Len(more)
        /\ \A i \in 1..Len(old) + Len(more) :
             (old \o more)[i] = IF i <= Len(old) THEN old[i] ELSE more[i - Len(old)]
    BY <2>1, ConcatProperties
  <2>3. PICK a \in Nat, c \in Nat : a = Len(old) /\ c = Len(more)
    BY <2>1
  <2>4. \A i \in 1..a : i \in 1..a + c /\ i <= a
    OBVIOUS
  <2>5. \A i \in 1..c : a + i \in 1..a + c /\ ~(a + i <= a) /\ (a + i) - a = i
    OBVIOUS
  <2>6. \A i \in 1..a : (old \o more)[i] = old[i]
    BY <2>2, <2>3, <2>4
  <2>7. \A i \in 1..c : (old \o more)[a + i] = more[i]
    BY <2>2, <2>3, <2>5
  <2>. QED  BY <2>2, <2>3, <2>6, <2>7 DEF old, S
<1>. DEFINE all == proposals[r] \o more
<1>7. proposals'[r] = all
  BY <1>3 DEF TypeOK
<1>8. Len(proposals[r]) \in Nat /\ Len(more) \in Nat \ {0}
  BY <1>1, <1>2, <1>5
<1>. HIDE DEF all
<1>9. Len(all) = Len(proposals[r]) + Len(more)
      /\ (\A i \in 1..Len(proposals[r]) : all[i] = proposals[r][i])
      /\ (\A i \in 1..Len(more) : all[Len(proposals[r]) + i] = more[i])
  BY <1>6 DEF all
<1>10. {all[i].pairs : i \in 1..Len(all)} = {proposals[r][i].pairs : i \in 1..Len(proposals[r])} \cup {pairs}
  <2>1. ASSUME NEW i \in 1..Len(all)
        PROVE  all[i].pairs \in {proposals[r][j].pairs : j \in 1..Len(proposals[r])} \cup {pairs}
    <3>1. CASE i <= Len(proposals[r])
      BY <1>8, <1>9, <3>1
    <3>2. CASE i > Len(proposals[r])
      <4>1. i - Len(proposals[r]) \in 1..Len(more)
        BY <1>8, <1>9, <3>2
      <4>2. i = Len(proposals[r]) + (i - Len(proposals[r]))
        BY <1>8
      <4>. QED  BY <1>4, <1>9, <4>1, <4>2
    <3>. QED  BY <1>8, <3>1, <3>2
  <2>2. ASSUME NEW i \in 1..Len(proposals[r])
        PROVE  proposals[r][i].pairs \in {all[j].pairs : j \in 1..Len(all)}
    <3>1. i \in 1..Len(all)
      BY <1>8, <1>9
    <3>. QED  BY <1>9, <3>1
  <2>3. pairs \in {all[j].pairs : j \in 1..Len(all)}
    <3>1. Len(proposals[r]) + 1 \in 1..Len(all) /\ 1 \in 1..Len(more)
      BY <1>8, <1>9
    <3>2. all[Len(proposals[r]) + 1].pairs = pairs
      BY <1>4, <1>9, <3>1
    <3>. QED  BY <3>1, <3>2
  <2>. QED  BY <2>1, <2>2, <2>3
<1>11. Proposed(r)' = Proposed(r) \cup {pairs}
  BY <1>7, <1>10 DEF Proposed
<1>12. proposals' \in [Runs -> Seq(S)] /\ \A q \in Runs \ {r} : proposals'[q] = proposals[q]
  BY <1>3, <1>6 DEF TypeOK
<1>. QED  BY <1>2, <1>7, <1>9, <1>11, <1>12

LEMMA Classifying ==
  ASSUME NEW r \in Runs, Before(r), ClassifyPairs(r)
  PROVE  Good(r)
<1>1. /\ run[r].status = "running" /\ run[r].pc \in {"ready", "unread"} /\ run[r].at = Classify
      /\ checkpoint[r][Classify] = None \/ run[r].pc = "unread"
      /\ UNCHANGED <<checkpoint, golden, provenance, resolved, finished>>
  BY DEF ClassifyPairs, Executes, At, Reusable
<1>2. Faulty
  BY Strikes DEF ClassifyPairs, Faulty
<1>3. CASE StepFails(r) /\ UNCHANGED proposals
  <2>1. UNCHANGED tables
    BY <1>1, <1>3 DEF tables
  <2>. QED  BY <1>1, <1>2, <1>3, <2>1, Failing
<1>. DEFINE matches == Frame(run[r].data.of, Decided(run[r].data.pairs, "match"))
            n == [run[r] EXCEPT !.out = matches, !.pc = "save"]
<1>4. CASE Builds(r, matches, "save")
  <2>1. run[r] \in RunRecord /\ run[r].data \in FrameType
    BY DEF Before, TypeOK, RunRecord
  <2>2. /\ matches \in FrameType /\ matches.of = run[r].data.of
        /\ matches.pairs = MatchesOf(world, matches.of)
    <3>1. run[r].data.of \in SUBSET Ids /\ Decided(run[r].data.pairs, "match") \in SUBSET Pairs
      BY <2>1, FramesMade DEF Decided
    <3>2. matches \in FrameType /\ matches.of = run[r].data.of
          /\ matches.pairs = Decided(run[r].data.pairs, "match")
      BY <3>1, FramesMade
    <3>3. run[r].at # Load /\ run[r].at - 1 = Score
      BY <1>1 DEF Classify, Load, Score
    <3>4. Right(Score, run[r].data)
      BY <1>1, <3>3, InputRight
    <3>5. run[r].data.pairs = CandidatePairs(run[r].data.of)
      BY <3>4 DEF Right
    <3>6. Decided(run[r].data.pairs, "match") = MatchesOf(world, run[r].data.of)
      BY <3>5, MatchIs DEF Before
    <3>. QED  BY <3>2, <3>6
  <2>. HIDE DEF matches
  <2>3. n \in RunRecord
    BY <2>1, <2>2, FieldsKept DEF Pc
  <2>4. /\ n.at = Classify /\ n.pc = "save" /\ n.data = run[r].data /\ n.out = matches
        /\ n.records = run[r].records /\ n.status = "running"
    BY <1>1, <2>1 DEF RunRecord
  <2>5. run' = [run EXCEPT ![r] = n]
    BY <1>4 DEF Builds, Before, TypeOK
  <2>. HIDE DEF n
  <2>6. /\ TypeOK /\ TablesTyped /\ Inv(r) /\ SameWorld /\ run'[r] = n /\ FaultsTyped /\ Grow
    BY <1>2, <2>3, <2>5, Begins
  <2>7. PICK o \in SUBSET Ids : o = run[r].data.of
    BY <2>1, FramesMade
  <2>8. Right(Score, run[r].data) /\ o = run[r].data.of
    <3>1. run[r].at # Load /\ run[r].at - 1 = Score
      BY <1>1 DEF Classify, Load, Score
    <3>. QED  BY <1>1, <2>7, <3>1, InputRight
  <2>9. PICK due \in SUBSET Pairs : due = ToReview(o)
    BY DEF ToReview, Scored
  <2>10. Decided(run[r].data.pairs, "review") = due
    BY <2>6, <2>8, <2>9, ReviewIs DEF Right
  <2>11. /\ proposals' \in [Runs -> Seq([store : Store, pairs : SUBSET Pairs])]
         /\ \A q \in Runs \ {r} : proposals'[q] = proposals[q]
         /\ \/ /\ Proposed(r)' = Proposed(r) \cup {due} /\ due # {}
               /\ \/ Len(proposals'[r]) = Len(proposals[r]) + 1
                  \/ Len(proposals'[r]) = Len(proposals[r]) + 2 /\ Strike("ambiguous")
            \/ /\ proposals' = proposals /\ (due = {} \/ Strike("sqlite"))
    <3>1. ASSUME NEW stores \in {<<"pg">>, <<"sqlite">>, <<"pg", "sqlite">>}, Propose(r, stores)
          PROVE  /\ proposals' \in [Runs -> Seq([store : Store, pairs : SUBSET Pairs])]
                 /\ \A q \in Runs \ {r} : proposals'[q] = proposals[q]
                 /\ Len(proposals'[r]) = Len(proposals[r]) + Len(stores)
                 /\ Proposed(r)' = Proposed(r) \cup {due}
      BY <2>6, <2>10, <3>1, Proposing
    <3>2. Len(<<"pg">>) = 1 /\ Len(<<"sqlite">>) = 1 /\ Len(<<"pg", "sqlite">>) = 2
      OBVIOUS
    <3>3. \/ due # {} /\ (Propose(r, <<"pg">>) \/ Propose(r, <<"sqlite">>))
          \/ due # {} /\ Strike("ambiguous") /\ Propose(r, <<"pg", "sqlite">>)
          \/ proposals' = proposals /\ (due = {} \/ Strike("sqlite"))
          \/ StepFails(r)
      BY <2>10 DEF ClassifyPairs
    <3>4. ~StepFails(r)
      <4>1. AfterFailure(run[r]).pc \in {"ready", "unread"}
        BY <1>1, <2>1, FailureMade
      <4>2. StepFails(r) => run'[r].pc \in {"ready", "unread"}
        BY <2>1, <2>6, <4>1 DEF StepFails, TypeOK
      <4>. QED  BY <2>4, <2>6, <4>2
    <3>5. CASE due # {} /\ (Propose(r, <<"pg">>) \/ Propose(r, <<"sqlite">>))
      BY <3>1, <3>2, <3>5
    <3>6. CASE due # {} /\ Strike("ambiguous") /\ Propose(r, <<"pg", "sqlite">>)
      BY <3>1, <3>2, <3>6
    <3>7. CASE proposals' = proposals /\ (due = {} \/ Strike("sqlite"))
      BY <2>6, <3>7 DEF TablesTyped
    <3>. QED  BY <3>3, <3>4, <3>5, <3>6, <3>7
  <2>12. Framed(r)'
    <3>1. ASSUME NEW a \in Assets, NEW f \in FrameType, Has(r, a, f)' PROVE Has(r, a, f) \/ Right(a, f)
      <4>1. CASE n.at = a /\ n.out = f
        <5>1. a \notin {Block, Score} /\ f.of = run[r].data.of /\ f.pairs = MatchesOf(world, f.of)
          BY <2>2, <2>4, <4>1 DEF Classify, Block, Score
        <5>. QED  BY <2>8, <5>1 DEF Right
      <4>2. CASE n.at = a + 1 /\ n.data = f
        BY <1>1, <2>4, <4>2 DEF Has
      <4>3. CASE checkpoint[r][a] # None /\ checkpoint[r][a] = f
        BY <4>3 DEF Has
      <4>. QED  BY <1>1, <2>6, <3>1, <4>1, <4>2, <4>3 DEF Has
    <3>. QED  BY <1>1, <2>4, <2>6, <3>1, FramedStays
  <2>13. Written(r)'
    <3>1. ~MayFallBack => due \subseteq Records \X Records
      <4>1. ASSUME ~MayFallBack, NEW p \in due PROVE p \in Records \X Records
        <5>1. p \in Ids \X Ids /\ p[1] \in o /\ p[2] \in o /\ o \subseteq Records
          BY <2>8, <2>9, <4>1 DEF ToReview, Scored, Right, Pairs
        <5>. QED  BY <5>1
      <4>. QED  BY <4>1
    <3>2. ~MayFallBack => \A s \in Proposed(r) : s \subseteq Records \X Records
      BY <2>6 DEF Inv, Written, Proposed
    <3>3. Proposed(r)' \subseteq Proposed(r) \cup {due}
      BY <2>11 DEF Proposed
    <3>4. ~MayFallBack => \A s \in Proposed(r)' : s \subseteq Records \X Records
      BY <3>1, <3>2, <3>3
    <3>5. \A i \in 1..Len(proposals'[r]) : proposals'[r][i].pairs \in Proposed(r)'
      BY DEF Proposed
    <3>. QED  BY <1>1, <2>6, <3>4, <3>5 DEF Inv, Written, SameWorld, MayFallBack
  <2>14. ~Held(r) /\ Held(r)' /\ Kept(r)' = Kept(r)
    BY <1>1, <2>4, <2>6 DEF Held, Kept, Classify, Golden
  <2>15. Counted(r)'
    <3>1. Len(proposals[r]) \in Nat /\ Len(golden[r]) \in Nat /\ Losses \in Nat /\ Losses' \in Nat
          /\ Losses' >= Losses
      BY <2>6, LossesGrow DEF TablesTyped
    <3>2. Len(proposals[r]) <= Losses /\ Len(golden[r]) <= Losses + (IF Kept(r) THEN 1 ELSE 0)
      BY <2>6, <2>14, <3>1 DEF Inv, Counted
    <3>3. Strike("ambiguous") => Losses' = Losses + 1
      BY <2>6, Lost
    <3>4. Len(proposals'[r]) <= Losses' + 1
      <4>1. CASE Len(proposals'[r]) = Len(proposals[r]) + 1
        BY <3>1, <3>2, <4>1
      <4>2. CASE Len(proposals'[r]) = Len(proposals[r]) + 2 /\ Strike("ambiguous")
        BY <3>1, <3>2, <3>3, <4>2
      <4>3. CASE proposals' = proposals
        BY <3>1, <3>2, <4>3
      <4>. QED  BY <2>11, <4>1, <4>2, <4>3
    <3>5. Len(golden[r]) <= Losses' + (IF Kept(r)' THEN 1 ELSE 0)
      BY <2>14, <3>1, <3>2
    <3>. QED  BY <1>1, <2>4, <2>6, <2>14, <3>4, <3>5 DEF Counted
  <2>16. Asking(r)'
    <3>1. ASSUME NEW x \in SUBSET Ids, Reaches(r, x)' PROVE Asked(r, x)'
      <4>1. ToReview(x)' = ToReview(x)
        BY <2>6 DEF SameWorld, ToReview, Scored
      <4>2. x = o \/ (Reaches(r, x) /\ (golden[r] # <<>> \/ run[r].pc = "unread"))
        BY <1>1, <2>2, <2>4, <2>6, <2>7, <3>1 DEF Reaches, Built, LastBatch, Classify, Golden
      <4>3. Proposed(r) \subseteq Proposed(r)'
        BY <2>11 DEF Proposed
      <4>4. /\ Struck("sqlite") > 0 => Struck("sqlite")' > 0
            /\ Strike("sqlite") => Struck("sqlite")' > 0
        <5>1. Struck("sqlite") \in Nat /\ Struck("sqlite")' \in Nat /\ Struck("sqlite")' >= Struck("sqlite")
          BY <2>6 DEF Grow
        <5>2. Strike("sqlite") => Struck("sqlite")' = Struck("sqlite") + 1
          BY <2>6, StruckOnce
        <5>. QED  BY <5>1, <5>2
      <4>5. ToReview(x) # {} => ToReview(x) \in Proposed(r)' \/ Struck("sqlite")' > 0
        <5>1. CASE x = o
          BY <2>9, <2>11, <4>4, <5>1
        <5>2. CASE Reaches(r, x)
          BY <2>6, <4>3, <4>4, <5>2 DEF Inv, Asking, Asked
        <5>. QED  BY <4>2, <5>1, <5>2
      <4>6. ToReview(x) = {} => Proposed(r)' = {} \/ Repeatable'
        <5>1. CASE ~Repeatable'
          <6>1. ~Repeatable
            BY <2>6, <5>1, LossesGrow
          <6>2. ~Begun(r) /\ run[r].pc # "unread"
            BY <2>6, <2>14, <6>1 DEF Inv, Asking, Counted, Repeatable
          <6>3. golden[r] = <<>> /\ proposals[r] = <<>> /\ x = o
            BY <4>2, <6>2 DEF Begun
          <6>4. Proposed(r) = {}
            BY <6>3 DEF Proposed
          <6>5. ToReview(x) = {} => Proposed(r)' = Proposed(r)
            BY <2>9, <2>11, <6>3 DEF Proposed
          <6>. QED  BY <6>4, <6>5
        <5>. QED  BY <5>1
      <4>. QED  BY <4>1, <4>5, <4>6 DEF Asked
    <3>. QED  BY <2>14, <3>1 DEF Asking
  <2>17. Announcing(r)' /\ Completing(r)' /\ Traced(r)'
    <3>1. Over(r)' => Over(r)
      BY <1>1, <2>4, <2>6 DEF Over, Classify, Golden
    <3>. QED  BY <1>1, <2>4, <2>6, <3>1, EndStays
  <2>18. Placed(run[r])'
    BY <2>4, <2>6 DEF Placed
  <2>19. TablesTyped' /\ \A q \in Runs \ {r} : SameTables(q)
    BY <1>1, <2>6, <2>11 DEF TablesTyped, SameTables
  <2>20. Inv(r)'
    BY <2>12, <2>13, <2>15, <2>16, <2>17, <2>18 DEF Inv
  <2>. QED  BY <1>2, <2>3, <2>5, <2>19, <2>20, Assembled
<1>. QED  BY <1>3, <1>4 DEF ClassifyPairs

(* ---------------------------- golden records ---------------------------- *)
LEMMA Inserted ==
  ASSUME NEW r \in Runs, Before(r), Faulty, run[r].at = Golden, run[r].pc \in {"ready", "unread"},
         checkpoint[r][Golden] = None \/ run[r].pc = "unread",
         UNCHANGED <<checkpoint, proposals, provenance, resolved, finished>>,
         NEW b \in BatchType, b.of = run[r].data.of, b.records = run[r].records,
         Partitions(b.clusters, b.records), Joined(world, b), Insert(r, b),
         NEW n \in RunRecord, run' = [run EXCEPT ![r] = n], Placed(n),
         n.at = Golden, n.data = run[r].data, n.records = run[r].records,
         \/ n.pc = "publish" /\ n.clusters = b.clusters
         \/ n.pc \in {"ready", run[r].pc} /\ Losses' = Losses + 1
  PROVE  Good(r)
<1>1. /\ TypeOK /\ TablesTyped /\ Inv(r) /\ SameWorld /\ run'[r] = n /\ FaultsTyped /\ Grow
      /\ run[r] \in RunRecord
  BY Begins
<1>2. PICK k \in Nat : k = Len(golden[r])
  <2>1. golden[r] \in Seq(BatchType)
    BY <1>1 DEF TablesTyped
  <2>2. Len(golden[r]) \in Nat
    BY <2>1
  <2>. QED  BY <2>2
<1>3. /\ golden' \in [Runs -> Seq(BatchType)] /\ \A q \in Runs \ {r} : golden'[q] = golden[q]
      /\ golden'[r] = Append(golden[r], b) /\ golden[r] \in Seq(BatchType)
  BY <1>1 DEF Insert, TablesTyped
<1>4. /\ Len(golden'[r]) = k + 1 /\ golden'[r][k + 1] = b
      /\ \A j \in 1..k : golden'[r][j] = golden[r][j]
      /\ golden'[r] # <<>> /\ LastBatch(r)' = b
  <2>. DEFINE old == golden[r]
  <2>1. old \in Seq(BatchType) /\ Len(old) = k
    BY <1>2, <1>3
  <2>. HIDE DEF old
  <2>2. /\ Append(old, b) # <<>> /\ Len(Append(old, b)) = Len(old) + 1
        /\ \A j \in 1..Len(old) : Append(old, b)[j] = old[j]
        /\ Append(old, b)[Len(old) + 1] = b
    BY <2>1, AppendProperties
  <2>. QED  BY <1>3, <2>1, <2>2 DEF LastBatch, old
<1>5. Framed(r)'
  <2>1. \A a \in Assets, f \in FrameType : Has(r, a, f)' => Has(r, a, f)
    BY <1>1 DEF Has, Built
  <2>. QED  BY <1>1, <2>1, FramedStays
<1>6. Written(r)'
  <2>1. ~MayFallBack => b.records \subseteq Records
    BY <1>1 DEF Inv, Framed, Golden, Load
  <2>2. ASSUME NEW j \in 1..k + 1
        PROVE  /\ Partitions(golden'[r][j].clusters, golden'[r][j].records)
               /\ Joined(world, golden'[r][j])
               /\ ~MayFallBack => golden'[r][j].records \subseteq Records
    <3>1. CASE j = k + 1
      BY <1>4, <2>1, <3>1
    <3>2. CASE j # k + 1
      <4>1. j \in 1..k
        BY <3>2
      <4>. QED  BY <1>1, <1>2, <1>4, <4>1 DEF Inv, Written
    <3>. QED  BY <3>1, <3>2
  <2>. QED  BY <1>1, <1>4, <2>2 DEF Inv, Written, Partitions, SameWorld, MayFallBack
<1>7. Held(r)' = Held(r) /\ ~Kept(r) /\ (n.pc = "publish" => Kept(r)')
  BY <1>1 DEF Held, Kept, Golden, Classify
<1>8. Counted(r)'
  <2>1. Len(proposals[r]) \in Nat /\ Losses \in Nat /\ Losses' \in Nat /\ Losses' >= Losses
    BY <1>1, LossesGrow DEF TablesTyped
  <2>2. Len(proposals[r]) <= Losses + (IF Held(r) THEN 1 ELSE 0) /\ k <= Losses
    BY <1>1, <1>2, <1>7, <2>1 DEF Inv, Counted
  <2>3. k + 1 <= Losses' + (IF Kept(r)' THEN 1 ELSE 0)
    BY <1>7, <2>1, <2>2
  <2>4. Len(proposals[r]) <= Losses' + (IF Held(r) THEN 1 ELSE 0)
    BY <2>1, <2>2
  <2>5. n.pc = "unread" => Struck("unreadable")' > 0
    BY <1>1, LossesGrow DEF Inv, Counted
  <2>. QED  BY <1>1, <1>4, <1>7, <2>3, <2>4, <2>5 DEF Counted
<1>9. Asking(r)'
  <2>1. Begun(r)
    BY DEF Begun
  <2>2. \A o \in SUBSET Ids : Reaches(r, o)' => Reaches(r, o)
    BY <1>1, <1>4 DEF Reaches, Built, Classify, Golden
  <2>3. \A o \in SUBSET Ids : Asked(r, o) => Asked(r, o)'
    BY <1>1, AskedStays
  <2>4. ~Repeatable' => ~Repeatable
    BY <1>1, LossesGrow
  <2>. QED  BY <1>1, <1>7, <2>1, <2>2, <2>3, <2>4 DEF Inv, Asking
<1>10. (Over(r)' => Out(r)') /\ Traced(r)'
  <2>1. CASE ~Over(r)'
    BY <2>1 DEF Traced
  <2>2. CASE Over(r)'
    <3>1. checkpoint[r][Golden] # None /\ Over(r)
      BY <1>1, <2>2 DEF Over
    <3>2. Struck("unreadable") > 0
      BY <1>1, <3>1 DEF Inv, Counted
    <3>. QED  BY <1>1, <1>2, <1>4, <3>1, <3>2, OverStays DEF Inv
  <2>. QED  BY <2>1, <2>2
<1>11. Announcing(r)'
  BY <1>1, <1>4, <1>10 DEF Announcing
<1>12. Completing(r)'
  <2>1. run[r].pc \notin {"publish", "finish"} /\ run'[r].pc # "finish"
    BY <1>1
  <2>2. Ended(r) = 1..k /\ 1..k \subseteq Ended(r)' /\ Ended(r)' \subseteq 1..k + 1
    BY <1>1, <1>2, <1>4 DEF Ended
  <2>. DEFINE A == {j \in 1..k : Announced(r, j)}
              B == {j \in Ended(r) : Announced(r, j)}'
  <2>3. \A j \in 1..k : Announced(r, j)' <=> Announced(r, j)
    BY <1>4 DEF Announced
  <2>4. A \subseteq B /\ B \subseteq 1..k + 1
    BY <2>2, <2>3
  <2>5. IsFiniteSet(1..k + 1)
    BY <1>2, FS_Interval
  <2>. HIDE DEF A, B
  <2>6. IsFiniteSet(B) /\ Cardinality(A) <= Cardinality(B) /\ Cardinality(A) \in Nat /\ Cardinality(B) \in Nat
    <3>1. IsFiniteSet(B)
      BY <2>4, <2>5, FS_Subset
    <3>. QED  BY <2>4, <3>1, FS_Subset, FS_CardinalityType
  <2>7. Struck("kafka") = 0 => finished[r] <= Cardinality(A)
    BY <1>1, <2>2 DEF Inv, Completing, A
  <2>8. (Struck("kafka") = 0)' => Struck("kafka") = 0
    BY <1>1, LossesGrow
  <2>9. finished[r] \in Nat
    BY <1>1 DEF TablesTyped
  <2>10. (Struck("kafka") = 0)' => finished[r] <= Cardinality(B)
    BY <2>6, <2>7, <2>8, <2>9
  <2>. QED  BY <1>4, <2>10 DEF Completing, B
<1>14. Placed(run[r])'
  BY <1>1 DEF Placed
<1>15. TablesTyped' /\ \A q \in Runs \ {r} : SameTables(q)
  BY <1>1, <1>3 DEF TablesTyped, SameTables
<1>16. Inv(r)'
  BY <1>5, <1>6, <1>8, <1>9, <1>10, <1>11, <1>12, <1>14 DEF Inv
<1>. QED  BY <1>15, <1>16, Assembled

LEMMA Persisting ==
  ASSUME NEW r \in Runs, Before(r), PersistGolden(r)
  PROVE  Good(r)
<1>1. /\ run[r].status = "running" /\ run[r].pc \in {"ready", "unread"} /\ run[r].at = Golden
      /\ checkpoint[r][Golden] = None \/ run[r].pc = "unread"
      /\ UNCHANGED <<checkpoint, proposals, provenance, resolved, finished>>
      /\ run[r] \in RunRecord /\ FaultsTyped /\ run \in [Runs -> RunRecord]
  BY DEF PersistGolden, Executes, At, Reusable, Before, TypeOK, FaultsTyped
<1>2. Faulty
  BY Strikes DEF PersistGolden, Faulty, Store
<1>3. CASE Strike("step") /\ StepFails(r) /\ UNCHANGED golden
  <2>1. UNCHANGED tables
    BY <1>1, <1>3 DEF tables
  <2>. QED  BY <1>1, <1>2, <1>3, <2>1, Failing
<1>4. ASSUME NEW rows \in Orders(run[r].data.pairs), NEW store \in Store
      PROVE  /\ Batch(r, store, rows) \in BatchType /\ Batch(r, store, rows).of = run[r].data.of
             /\ Batch(r, store, rows).records = run[r].records /\ Batch(r, store, rows).store = store
             /\ Partitions(Batch(r, store, rows).clusters, Batch(r, store, rows).records)
             /\ Batch(r, store, rows).clusters \in Clustering
             /\ Joined(world, Batch(r, store, rows))
  <2>1. run[r].data.of \in SUBSET Ids /\ run[r].records \in SUBSET Ids
    BY <1>1, FramesMade DEF RunRecord
  <2>2. /\ Matching!Clusters(rows, run[r].records) \in Clustering
        /\ Partitions(Matching!Clusters(rows, run[r].records), run[r].records)
    BY <2>1, Clustered
  <2>3. rows \in Orders(MatchesOf(world, run[r].data.of))
    <3>1. run[r].at # Load /\ run[r].pc # "end" /\ run[r].at - 1 = Classify
      BY <1>1 DEF Golden, Load, Classify
    <3>2. run[r].data.pairs = MatchesOf(world, run[r].data.of)
      BY <3>1, InputRight DEF Right
    <3>. QED  BY <1>4, <3>2
  <2>4. ASSUME NEW x \in run[r].records, NEW y \in run[r].records, x < y
        PROVE  (\E c \in Matching!Clusters(rows, run[r].records) : x \in c /\ y \in c)
                 <=> Linked(x, y, run[r].data.of, MatchesOf(world, run[r].data.of))
    <3>1. Ids \subseteq Nat
      BY ResolutionAssumption DEF ResolutionAssumption
    <3>2. x \in Nat /\ y \in Nat
      BY <2>1, <3>1
    <3>3. x # y
      BY <2>4, <3>2
    <3>. QED  BY <2>1, <2>3, <3>3, ClustersJoin
  <2>5. Joined(world, Batch(r, store, rows))
    BY <2>4 DEF Joined, Batch
  <2>. QED  BY <2>1, <2>2, <2>5 DEF Batch, BatchType, Clustering
<1>5. ASSUME NEW rows \in Orders(run[r].data.pairs), NEW store \in Store,
             IF store = "pg" THEN Sound ELSE Strike("pg"),
             Insert(r, Batch(r, store, rows)),
             run' = [run EXCEPT ![r].pc = "publish", ![r].clusters = Batch(r, store, rows).clusters]
      PROVE  Good(r)
  <2>1. PICK b \in BatchType :
          /\ b = Batch(r, store, rows) /\ b.of = run[r].data.of /\ b.records = run[r].records
          /\ b.store = store /\ Partitions(b.clusters, b.records) /\ b.clusters \in Clustering
          /\ Joined(world, b)
    BY <1>4
  <2>2. PICK n \in RunRecord : n = [run[r] EXCEPT !.pc = "publish", !.clusters = b.clusters]
    BY <1>1, <2>1, FieldsKept DEF Pc
  <2>3. run' = [run EXCEPT ![r] = n]
    BY <1>1, <1>5, <2>1, <2>2
  <2>4. /\ n.at = Golden /\ n.data = run[r].data /\ n.records = run[r].records
        /\ n.pc = "publish" /\ n.clusters = b.clusters /\ n.status = "running"
    BY <1>1, <2>2 DEF RunRecord
  <2>5. Placed(n)
    BY <2>4 DEF Placed
  <2>7. Insert(r, b)
    BY <1>5, <2>1
  <2>. QED  BY <1>1, <1>2, <2>1, <2>3, <2>4, <2>5, <2>7, Inserted
<1>6. ASSUME NEW rows \in Orders(run[r].data.pairs), Strike("ambiguous"), Insert(r, Batch(r, "pg", rows)), StepFails(r)
      PROVE  Good(r)
  <2>1. PICK b \in BatchType :
          /\ b = Batch(r, "pg", rows) /\ b.of = run[r].data.of /\ b.records = run[r].records
          /\ b.store = "pg" /\ Partitions(b.clusters, b.records) /\ Joined(world, b)
    BY <1>4 DEF Store
  <2>2. PICK n \in RunRecord : n = AfterFailure(run[r])
    BY <1>1, FailureMade
  <2>3. /\ run' = [run EXCEPT ![r] = n] /\ n.at = Golden /\ n.data = run[r].data
        /\ n.records = run[r].records /\ n.pc \in {"ready", run[r].pc}
        /\ n.status \in {"running", "failed"}
    BY <1>1, <1>6, <2>2, FailureMade DEF StepFails
  <2>4. Placed(n)
    BY <1>1, <2>3 DEF Placed
  <2>5. Losses' = Losses + 1
    BY <1>1, <1>6, Lost
  <2>6. Insert(r, b)
    BY <1>6, <2>1
  <2>. QED  BY <1>1, <1>2, <2>1, <2>3, <2>4, <2>5, <2>6, Inserted
<1>. QED  BY <1>3, <1>5, <1>6 DEF PersistGolden

(* --------------------------- announcing the end ------------------------- *)
(* Between the golden records and the checkpoint, what is earlier stays.   *)
LEMMA HalfWay ==
  ASSUME NEW r \in Runs, Before(r), Faulty, run[r].at = Golden,
         UNCHANGED <<checkpoint, proposals, golden>>,
         NEW n \in RunRecord, run' = [run EXCEPT ![r] = n], n.status = run[r].status,
         n.at = Golden, n.data = run[r].data, n.records = run[r].records,
         run[r].status = "running", run[r].pc \in {"publish", "finish"},
         n.pc \in {"publish", "finish", "save"}, n.pc = "save" => n.out = run[r].data
  PROVE  Placed(run[r])' /\ Framed(r)' /\ Written(r)' /\ Counted(r)' /\ Asking(r)'
<1>1. /\ TypeOK /\ TablesTyped /\ Inv(r) /\ SameWorld /\ run'[r] = n /\ FaultsTyped /\ Grow
      /\ run[r] \in RunRecord
  BY Begins
<1>2. Framed(r)'
  <2>1. Right(Classify, run[r].data)
    <3>1. run[r].at # Load /\ run[r].at - 1 = Classify
      BY DEF Golden, Load, Classify
    <3>. QED  BY <3>1, InputRight
  <2>2. Right(Golden, run[r].data)
    BY <2>1 DEF Right, Golden, Block, Score, Classify
  <2>3. \A a \in Assets, f \in FrameType : Has(r, a, f)' => Has(r, a, f) \/ Right(a, f)
    BY <1>1, <2>2 DEF Has, Built
  <2>. QED  BY <1>1, <2>3, FramedStays
<1>3. Held(r)' = Held(r) /\ Kept(r) /\ Kept(r)'
  BY <1>1 DEF Held, Kept, Golden, Classify
<1>4. Counted(r)'
  <2>1. Len(proposals[r]) \in Nat /\ Len(golden[r]) \in Nat /\ Losses \in Nat /\ Losses' \in Nat
        /\ Losses' >= Losses
    BY <1>1, LossesGrow DEF TablesTyped
  <2>2. Len(proposals[r]) <= Losses + (IF Held(r) THEN 1 ELSE 0) /\ Len(golden[r]) <= Losses + 1
    BY <1>1, <1>3 DEF Inv, Counted
  <2>3. Len(proposals[r]) <= Losses' + (IF Held(r) THEN 1 ELSE 0) /\ Len(golden[r]) <= Losses' + 1
    BY <2>1, <2>2
  <2>. QED  BY <1>1, <1>3, <2>3 DEF Counted
<1>5. Asking(r)'
  <2>1. Begun(r)
    BY DEF Begun
  <2>2. \A o \in SUBSET Ids : Reaches(r, o)' => Reaches(r, o)
    BY <1>1 DEF Reaches, Built, LastBatch, Classify, Golden
  <2>3. \A o \in SUBSET Ids : Asked(r, o) => Asked(r, o)'
    BY <1>1, AskedStays
  <2>4. ~Repeatable' => ~Repeatable
    BY <1>1, LossesGrow
  <2>. QED  BY <1>1, <1>3, <2>1, <2>2, <2>3, <2>4 DEF Inv, Asking
<1>6. Written(r)' /\ Placed(run[r])'
  BY <1>1 DEF Inv, Written, Placed, SameWorld, MayFallBack
<1>. QED  BY <1>2, <1>4, <1>5, <1>6

LEMMA AnnouncedGrows ==
  ASSUME NEW r, NEW k \in Nat, \A n \in 1..k : Announced(r, n) => Announced(r, n)'
  PROVE  /\ Cardinality({n \in 1..k : Announced(r, n)}) <= Cardinality({n \in 1..k : Announced(r, n)'})
         /\ Cardinality({n \in 1..k : Announced(r, n)}) \in Nat
         /\ Cardinality({n \in 1..k : Announced(r, n)'}) \in Nat
<1>. DEFINE A == {n \in 1..k : Announced(r, n)}
            B == {n \in 1..k : Announced(r, n)'}
<1>1. IsFiniteSet(1..k)
  BY FS_Interval
<1>2. A \subseteq B /\ B \subseteq 1..k
  OBVIOUS
<1>. HIDE DEF A, B
<1>3. IsFiniteSet(B) /\ IsFiniteSet(A)
  BY <1>1, <1>2, FS_Subset
<1>4. Cardinality(A) <= Cardinality(B) /\ Cardinality(A) \in Nat /\ Cardinality(B) \in Nat
  BY <1>2, <1>3, FS_Subset, FS_CardinalityType
<1>. QED  BY <1>4 DEF A, B

LEMMA Publishing ==
  ASSUME NEW r \in Runs, Before(r), Publish(r)
  PROVE  Good(r)
<1>1. /\ run[r].status = "running" /\ run[r].pc = "publish" /\ run[r].at = Golden
      /\ UNCHANGED <<checkpoint, proposals, golden, provenance, finished>>
      /\ run[r] \in RunRecord /\ FaultsTyped /\ TypeOK /\ run[r].clusters # {}
  BY DEF Publish, AllPublished, At, Before, TypeOK, FaultsTyped
<1>2. Faulty
  BY Strikes DEF Publish, Faulty
<1>3. PICK c \in run[r].clusters :
        /\ run' = [run EXCEPT ![r].clusters = @ \ {c}]
        /\ \/ resolved' = [resolved EXCEPT ![r] = @ \cup {<<Len(golden[r]), c>>}]
           \/ Strike("kafka") /\ resolved' = resolved
  BY <1>1 DEF Publish
<1>4. run[r].clusters \in Clustering /\ run[r].clusters \ {c} \in Clustering
  BY <1>1 DEF RunRecord, Clustering
<1>5. PICK n \in RunRecord : n = [run[r] EXCEPT !.clusters = run[r].clusters \ {c}]
  BY <1>1, <1>4, FieldsKept
<1>6. /\ n.at = Golden /\ n.data = run[r].data /\ n.records = run[r].records /\ n.pc = "publish"
      /\ n.clusters = run[r].clusters \ {c} /\ n.status = "running"
  BY <1>1, <1>5 DEF RunRecord
<1>7. run' = [run EXCEPT ![r] = n]
  BY <1>1, <1>3, <1>5 DEF TypeOK
<1>8. /\ TablesTyped /\ Inv(r) /\ SameWorld /\ run'[r] = n /\ Grow
  BY <1>2, <1>7, Begins
<1>9. Placed(run[r])' /\ Framed(r)' /\ Written(r)' /\ Counted(r)' /\ Asking(r)'
  BY <1>1, <1>2, <1>6, <1>7, HalfWay
<1>10. PICK k \in Nat : k = Len(golden[r])
  BY <1>8 DEF TablesTyped
<1>11. /\ resolved' \in [Runs -> SUBSET (Nat \X SUBSET Ids)]
       /\ \A q \in Runs \ {r} : resolved'[q] = resolved[q]
       /\ resolved[r] \subseteq resolved'[r]
       /\ <<k, c>> \in resolved'[r] \/ Strike("kafka")
  <2>1. c \in SUBSET Ids
    BY <1>3, <1>4 DEF Clustering
  <2>2. <<k, c>> \in Nat \X SUBSET Ids
    BY <2>1
  <2>3. CASE resolved' = [resolved EXCEPT ![r] = @ \cup {<<Len(golden[r]), c>>}]
    <3>1. resolved' = [resolved EXCEPT ![r] = resolved[r] \cup {<<k, c>>}]
      BY <1>8, <1>10, <2>3 DEF TablesTyped
    <3>. QED  BY <1>8, <2>2, <3>1 DEF TablesTyped
  <2>4. CASE Strike("kafka") /\ resolved' = resolved
    BY <1>8, <2>4 DEF TablesTyped
  <2>. QED  BY <1>3, <2>3, <2>4
<1>12. (Struck("kafka") = 0)' => Struck("kafka") = 0 /\ <<k, c>> \in resolved'[r]
  <2>1. Strike("kafka") => Struck("kafka")' = Struck("kafka") + 1 /\ Struck("kafka") \in Nat
    BY <1>1, StruckOnce
  <2>2. Strike("kafka") => Struck("kafka")' # 0
    BY <2>1
  <2>. QED  BY <1>8, <1>11, <2>2, LossesGrow
<1>13. \A j \in Nat : Announced(r, j) => Announced(r, j)'
  BY <1>1, <1>11 DEF Announced
<1>14. Announcing(r)' /\ Traced(r)'
  <2>1. Over(r)' => Over(r)
    BY <1>1, <1>6, <1>8 DEF Over
  <2>2. (Over(r)' => Out(r)') /\ Traced(r)'
    BY <1>1, <1>8, <1>11, <2>1, OverStays DEF Inv
  <2>3. (Struck("kafka") = 0)' =>
          \A d \in golden[r][k].clusters : d \in run[r].clusters \/ <<k, d>> \in resolved[r]
    BY <1>1, <1>8, <1>10, <1>12 DEF Inv, Announcing, LastBatch
  <2>4. (Struck("kafka") = 0)' =>
          \A d \in golden[r][k].clusters : d \in n.clusters \/ <<k, d>> \in resolved'[r]
    BY <1>6, <1>11, <1>12, <2>3
  <2>5. golden[r] # <<>>
    BY <1>1, <1>8 DEF Inv, Announcing
  <2>. QED  BY <1>1, <1>6, <1>8, <1>10, <2>2, <2>4, <2>5 DEF Announcing, LastBatch
<1>15. Completing(r)'
  <2>1. k # 0
    BY <1>1, <1>8, <1>10 DEF Inv, Announcing, TablesTyped
  <2>2. PICK j \in Nat : j = k - 1
    BY <2>1
  <2>3. Ended(r) = 1..j /\ Ended(r)' = 1..j
    BY <1>1, <1>6, <1>8, <1>10, <2>2 DEF Ended
  <2>4. /\ Cardinality({m \in 1..j : Announced(r, m)}) <= Cardinality({m \in 1..j : Announced(r, m)'})
        /\ Cardinality({m \in 1..j : Announced(r, m)}) \in Nat
        /\ Cardinality({m \in 1..j : Announced(r, m)'}) \in Nat
    BY <1>13, AnnouncedGrows
  <2>5. finished[r] \in Nat
    BY <1>8 DEF TablesTyped
  <2>6. Struck("kafka") = 0 => finished[r] <= Cardinality({m \in 1..j : Announced(r, m)})
    BY <1>8, <2>3 DEF Inv, Completing
  <2>7. (Struck("kafka") = 0)' => finished[r] <= Cardinality({m \in 1..j : Announced(r, m)'})
    BY <1>12, <2>4, <2>5, <2>6
  <2>8. {m \in Ended(r) : Announced(r, m)}' = {m \in 1..j : Announced(r, m)'}
    BY <2>3
  <2>9. golden'[r] # <<>>
    BY <1>1, <1>8 DEF Inv, Announcing
  <2>. QED  BY <1>1, <2>7, <2>8, <2>9 DEF Completing
<1>17. TablesTyped' /\ \A q \in Runs \ {r} : SameTables(q)
  BY <1>1, <1>8, <1>11 DEF TablesTyped, SameTables
<1>18. Inv(r)'
  BY <1>9, <1>14, <1>15 DEF Inv
<1>. QED  BY <1>2, <1>7, <1>17, <1>18, Assembled

LEMMA Recording ==
  ASSUME TypeOK, NEW r \in Runs, NEW stores \in {<<"pg">>, <<"sqlite">>, <<"pg", "sqlite">>},
         NEW k \in Nat, k = Len(golden[r]), Trace(r, stores)
  PROVE  /\ provenance' \in [Runs -> Seq([batch : Nat, store : Store])]
         /\ \A q \in Runs \ {r} : provenance'[q] = provenance[q]
         /\ \E i \in 1..Len(provenance'[r]) : provenance'[r][i] = [batch |-> k, store |-> stores[1]]
<1>. DEFINE S == [batch : Nat, store : Store]
            more == [i \in 1..Len(stores) |-> [batch |-> k, store |-> stores[i]]]
<1>1. Len(stores) \in {1, 2} /\ \A i \in 1..Len(stores) : stores[i] \in Store
  BY DEF Store
<1>2. more \in Seq(S) /\ Len(more) = Len(stores) /\ more[1] = [batch |-> k, store |-> stores[1]]
  <2>1. more \in [1..Len(stores) -> S]
    BY <1>1
  <2>2. 1 \in 1..Len(stores)
    <3>1. PICK m \in {1, 2} : m = Len(stores)
      BY <1>1
    <3>2. 1 \in 1..m
      OBVIOUS
    <3>. QED  BY <3>1, <3>2
  <2>3. Len(stores) \in Nat
    BY <1>1
  <2>. QED  BY <2>1, <2>2, <2>3, IsASeq, LenProperties
<1>3. provenance' = [provenance EXCEPT ![r] = provenance[r] \o more]
  BY DEF Trace, TypeOK
<1>. HIDE DEF more
<1>4. provenance[r] \in Seq(S)
  BY DEF TypeOK
<1>5. Len(provenance[r]) \in Nat /\ Len(more) \in Nat \ {0}
  BY <1>1, <1>2, <1>4
<1>6. /\ provenance[r] \o more \in Seq(S)
      /\ Len(provenance[r] \o more) = Len(provenance[r]) + Len(more)
      /\ (provenance[r] \o more)[Len(provenance[r]) + 1] = more[1]
  <2>1. /\ provenance[r] \o more \in Seq(S)
        /\ Len(provenance[r] \o more) = Len(provenance[r]) + Len(more)
        /\ \A i \in 1..Len(provenance[r]) + Len(more) : (provenance[r] \o more)[i] =
             IF i <= Len(provenance[r]) THEN provenance[r][i] ELSE more[i - Len(provenance[r])]
    <3>. DEFINE old == provenance[r]
    <3>1. old \in Seq(S) /\ more \in Seq(S)
      BY <1>2, <1>4
    <3>. HIDE DEF old, S
    <3>2. /\ old \o more \in Seq(S)
          /\ Len(old \o more) = Len(old) + Len(more)
          /\ \A i \in 1..Len(old) + Len(more) :
               (old \o more)[i] = IF i <= Len(old) THEN old[i] ELSE more[i - Len(old)]
      BY <3>1, ConcatProperties
    <3>. QED  BY <3>2 DEF old, S
  <2>2. PICK a \in Nat : a = Len(provenance[r])
    BY <1>5
  <2>3. a + 1 \in 1..a + Len(more) /\ ~(a + 1 <= a) /\ (a + 1) - a = 1
    BY <1>5
  <2>. QED  BY <2>1, <2>2, <2>3
<1>7. provenance'[r] = provenance[r] \o more /\ \A q \in Runs \ {r} : provenance'[q] = provenance[q]
  BY <1>3 DEF TypeOK
<1>8. Len(provenance[r]) + 1 \in 1..Len(provenance'[r])
  BY <1>5, <1>6, <1>7
<1>9. provenance' \in [Runs -> Seq(S)]
  BY <1>3, <1>6 DEF TypeOK
<1>. QED  BY <1>2, <1>6, <1>7, <1>8, <1>9

(* The batches counted grow with those announced.                          *)
LEMMA StillCompleting ==
  ASSUME NEW r \in Runs, TablesTyped, Grow, Completing(r), NEW j \in Nat, Ended(r) = 1..j, Ended(r)' = 1..j,
         finished'[r] = finished[r], golden'[r] = golden[r], resolved'[r] = resolved[r]
  PROVE  (Struck("kafka") = 0)' => finished'[r] <= Cardinality({n \in Ended(r) : Announced(r, n)}')
<1>1. (Struck("kafka") = 0)' => Struck("kafka") = 0
  BY LossesGrow
<1>2. {n \in Ended(r) : Announced(r, n)}' = {n \in Ended(r) : Announced(r, n)}
  BY DEF Announced
<1>. QED  BY <1>1, <1>2 DEF Completing

LEMMA Tracked ==
  ASSUME NEW r \in Runs, Before(r), PersistProvenance(r)
  PROVE  Good(r)
<1>1. /\ run[r].status = "running" /\ run[r].pc = "publish" /\ run[r].at = Golden
      /\ UNCHANGED <<checkpoint, proposals, golden, resolved, finished>>
      /\ run[r] \in RunRecord /\ FaultsTyped /\ TypeOK /\ run[r].clusters = {}
  BY DEF PersistProvenance, AllPublished, At, Before, TypeOK, FaultsTyped
<1>2. Faulty
  BY Strikes DEF PersistProvenance, Faulty
<1>3. PICK n \in RunRecord : n = [run[r] EXCEPT !.pc = "finish"]
  BY <1>1, FieldsKept DEF Pc
<1>4. /\ n.at = Golden /\ n.data = run[r].data /\ n.records = run[r].records /\ n.pc = "finish"
      /\ n.clusters = run[r].clusters /\ n.status = "running"
  BY <1>1, <1>3 DEF RunRecord
<1>5. run' = [run EXCEPT ![r] = n]
  BY <1>1, <1>3 DEF PersistProvenance, TypeOK
<1>6. /\ TablesTyped /\ Inv(r) /\ SameWorld /\ run'[r] = n /\ Grow
  BY <1>2, <1>5, Begins
<1>7. Placed(run[r])' /\ Framed(r)' /\ Written(r)' /\ Counted(r)' /\ Asking(r)'
  BY <1>1, <1>2, <1>4, <1>5, HalfWay
<1>8. PICK k \in Nat : k = Len(golden[r])
  BY <1>6 DEF TablesTyped
<1>9. golden[r] # <<>> /\ k # 0
  BY <1>1, <1>6, <1>8 DEF Inv, Announcing, TablesTyped
<1>10. /\ provenance' \in [Runs -> Seq([batch : Nat, store : Store])]
       /\ \A q \in Runs \ {r} : provenance'[q] = provenance[q]
  <2>1. ASSUME NEW stores \in {<<"pg">>, <<"sqlite">>, <<"pg", "sqlite">>}, Trace(r, stores)
        PROVE  /\ provenance' \in [Runs -> Seq([batch : Nat, store : Store])]
               /\ \A q \in Runs \ {r} : provenance'[q] = provenance[q]
    BY <1>1, <1>8, <2>1, Recording
  <2>2. \/ Trace(r, <<"pg">>) \/ Trace(r, <<"pg", "sqlite">>) \/ Trace(r, <<"sqlite">>)
        \/ provenance' = provenance
    BY DEF PersistProvenance
  <2>3. CASE provenance' = provenance
    BY <1>6, <2>3 DEF TablesTyped
  <2>. QED  BY <2>1, <2>2, <2>3
<1>16. k \in Settled(r)'
  <2>1. k \in 1..k
    BY <1>9
  <2>. QED  BY <1>1, <1>8, <2>1 DEF Settled
<1>11. Announcing(r)'
  <2>1. (Struck("kafka") = 0)' => Struck("kafka") = 0
    BY <1>6, LossesGrow
  <2>2. Struck("kafka") = 0 => \A d \in golden[r][k].clusters : <<k, d>> \in resolved[r]
    BY <1>1, <1>6, <1>8 DEF Inv, Announcing, LastBatch
  <2>3. (Struck("kafka") = 0)' => Announced(r, k)'
    BY <1>1, <1>8, <2>1, <2>2 DEF Announced
  <2>4. Out(r)'
    BY <1>1, <1>9, <1>16, <2>3 DEF Out
  <2>. QED  BY <1>1, <1>4, <1>6, <1>8, <2>3, <2>4 DEF Announcing
<1>12. Completing(r)'
  <2>1. PICK j \in Nat : j = k - 1
    BY <1>9
  <2>2. Ended(r) = 1..j /\ Ended(r)' = 1..j
    BY <1>1, <1>4, <1>6, <1>8, <2>1 DEF Ended
  <2>3. (Struck("kafka") = 0)' => finished'[r] <= Cardinality({m \in Ended(r) : Announced(r, m)}')
    BY <1>1, <1>6, <2>2, StillCompleting DEF Inv
  <2>. QED  BY <1>1, <1>9, <2>3 DEF Completing
<1>13. Traced(r)'
  <2>1. ASSUME (Struck("sqlite") = 0)' PROVE Beside(r, k)'
    <3>1. /\ Strike("sqlite") => Struck("sqlite")' > 0
          /\ Strike("pg") => Struck("pg")' > 0
      <4>1. /\ Strike("pg") => Struck("pg")' = Struck("pg") + 1 /\ Struck("pg") \in Nat
            /\ Strike("sqlite") => Struck("sqlite")' = Struck("sqlite") + 1 /\ Struck("sqlite") \in Nat
        BY <1>1, StruckOnce
      <4>. QED  BY <4>1
    <3>2. ~Strike("sqlite")
      BY <2>1, <3>1
    <3>3. \/ Accepts(r) /\ \E stores \in {<<"pg">>, <<"pg", "sqlite">>} : Trace(r, stores)
          \/ (IF Accepts(r) THEN Strike("pg") ELSE Sound) /\ Trace(r, <<"sqlite">>)
      BY <3>2 DEF PersistProvenance
    <3>4. golden[r][k] \in BatchType
      <4>1. golden[r] \in Seq(BatchType) /\ k \in 1..k
        BY <1>6, <1>9 DEF TablesTyped
      <4>. QED  BY <1>8, <4>1
    <3>5. golden[r][k].store \in {"pg", "sqlite"}
      BY <3>4 DEF BatchType, Store
    <3>6. CASE Accepts(r) /\ \E stores \in {<<"pg">>, <<"pg", "sqlite">>} : Trace(r, stores)
      <4>1. PICK stores \in {<<"pg">>, <<"sqlite">>, <<"pg", "sqlite">>} :
              Trace(r, stores) /\ stores[1] = "pg"
        BY <3>6
      <4>2. \E i \in 1..Len(provenance'[r]) : provenance'[r][i] = [batch |-> k, store |-> "pg"]
        BY <1>1, <1>8, <4>1, Recording
      <4>3. golden'[r][k].store = "pg"
        BY <1>1, <1>8, <3>6 DEF Accepts
      <4>. QED  BY <4>2, <4>3 DEF Beside, TracedIn
    <3>7. CASE (IF Accepts(r) THEN Strike("pg") ELSE Sound) /\ Trace(r, <<"sqlite">>)
      <4>1. \E i \in 1..Len(provenance'[r]) : provenance'[r][i] = [batch |-> k, store |-> "sqlite"]
        BY <1>1, <1>8, <3>7, Recording
      <4>2. golden[r][k].store = "pg" => Struck("pg")' > 0 \/ ~world'.traceable
        BY <1>6, <1>8, <3>1, <3>7 DEF Accepts, SameWorld
      <4>. QED  BY <1>1, <3>5, <4>1, <4>2 DEF Beside, TracedIn
    <3>. QED  BY <3>3, <3>6, <3>7
  <2>. QED  BY <1>16, <2>1 DEF Traced
<1>14. TablesTyped' /\ \A q \in Runs \ {r} : SameTables(q)
  BY <1>1, <1>6, <1>10 DEF TablesTyped, SameTables
<1>15. Inv(r)'
  BY <1>7, <1>11, <1>12, <1>13 DEF Inv
<1>. QED  BY <1>2, <1>5, <1>14, <1>15, Assembled

LEMMA OneMore ==
  ASSUME NEW r, NEW k \in Nat \ {0}, Announced(r, k)
  PROVE  /\ Cardinality({m \in 1..k : Announced(r, m)})
              = Cardinality({m \in 1..k - 1 : Announced(r, m)}) + 1
         /\ Cardinality({m \in 1..k : Announced(r, m)}) \in Nat
         /\ Cardinality({m \in 1..k - 1 : Announced(r, m)}) \in Nat
<1>. DEFINE A == {m \in 1..k - 1 : Announced(r, m)}
            B == {m \in 1..k : Announced(r, m)}
<1>1. IsFiniteSet(1..k - 1)
  BY FS_Interval
<1>2. A \subseteq 1..k - 1 /\ k \notin A
  OBVIOUS
<1>3. B = A \cup {k}
  <2>1. \A m : m \in 1..k <=> (m \in 1..k - 1 \/ m = k)
    OBVIOUS
  <2>. QED  BY <2>1
<1>. HIDE DEF A, B
<1>4. IsFiniteSet(A)
  BY <1>1, <1>2, FS_Subset
<1>5. Cardinality(B) = Cardinality(A) + 1 /\ Cardinality(A) \in Nat
  BY <1>2, <1>3, <1>4, FS_AddElement, FS_CardinalityType
<1>6. Cardinality(B) \in Nat
  BY <1>5
<1>. QED  BY <1>5, <1>6 DEF A, B

LEMMA Ending ==
  ASSUME NEW r \in Runs, Before(r), PublishCompletion(r)
  PROVE  Good(r)
<1>1. /\ run[r].status = "running" /\ run[r].pc = "finish" /\ run[r].at = Golden
      /\ UNCHANGED <<checkpoint, proposals, golden, provenance, resolved>>
      /\ run[r] \in RunRecord /\ run[r].data \in FrameType /\ FaultsTyped /\ TypeOK
  BY DEF PublishCompletion, At, Before, TypeOK, FaultsTyped, RunRecord
<1>2. Faulty
  BY Strikes DEF PublishCompletion, Faulty
<1>3. PICK n \in RunRecord : n = [run[r] EXCEPT !.out = run[r].data, !.pc = "save"]
  BY <1>1, FieldsKept DEF Pc
<1>4. /\ n.at = Golden /\ n.data = run[r].data /\ n.records = run[r].records /\ n.pc = "save"
      /\ n.out = run[r].data /\ n.status = "running"
  BY <1>1, <1>3 DEF RunRecord
<1>5. run' = [run EXCEPT ![r] = n]
  BY <1>1, <1>3 DEF PublishCompletion, Builds, TypeOK
<1>6. /\ TablesTyped /\ Inv(r) /\ SameWorld /\ run'[r] = n /\ Grow
  BY <1>2, <1>5, Begins
<1>7. Placed(run[r])' /\ Framed(r)' /\ Written(r)' /\ Counted(r)' /\ Asking(r)'
  BY <1>1, <1>2, <1>4, <1>5, HalfWay
<1>8. PICK k \in Nat : k = Len(golden[r])
  BY <1>6 DEF TablesTyped
<1>9. golden[r] # <<>> /\ k # 0 /\ Over(r)
  BY <1>1, <1>6, <1>8 DEF Inv, Completing, TablesTyped, Over
<1>10. /\ finished' \in [Runs -> Nat] /\ \A q \in Runs \ {r} : finished'[q] = finished[q]
       /\ finished[r] \in Nat /\ finished'[r] \in {finished[r], finished[r] + 1}
  <2>1. CASE finished' = [finished EXCEPT ![r] = @ + 1]
    BY <1>6, <2>1 DEF TablesTyped
  <2>2. CASE finished' = finished
    BY <1>6, <2>2 DEF TablesTyped
  <2>. QED  BY <2>1, <2>2 DEF PublishCompletion
<1>11. (Struck("kafka") = 0)' => Struck("kafka") = 0
  BY <1>6, LossesGrow
<1>12. (Struck("kafka") = 0)' => Announced(r, k)
  BY <1>1, <1>6, <1>8, <1>11 DEF Inv, Announcing
<1>13. Announcing(r)' /\ Traced(r)'
  <2>1. (Over(r)' => Out(r)') /\ Traced(r)'
    BY <1>1, <1>6, <1>9, OverStays DEF Inv
  <2>. QED  BY <1>4, <1>6, <2>1 DEF Announcing
<1>14. Completing(r)'
  <2>1. Ended(r) = 1..k - 1 /\ Ended(r)' = 1..k
    BY <1>1, <1>4, <1>6, <1>8 DEF Ended
  <2>2. {m \in Ended(r) : Announced(r, m)}' = {m \in 1..k : Announced(r, m)}
    BY <1>1, <2>1 DEF Announced
  <2>. DEFINE before == Cardinality({m \in 1..k - 1 : Announced(r, m)})
              now == Cardinality({m \in 1..k : Announced(r, m)})
  <2>3. Struck("kafka") = 0 => finished[r] <= before
    BY <1>6, <2>1 DEF Inv, Completing
  <2>4. k \in Nat \ {0} /\ Announced(r, k) => now = before + 1 /\ now \in Nat /\ before \in Nat
    BY OneMore
  <2>. HIDE DEF before, now
  <2>5. (Struck("kafka") = 0)' => Announced(r, k)
    BY <1>12
  <2>6. (Struck("kafka") = 0)' => finished'[r] <= now
    BY <1>9, <1>10, <1>11, <2>3, <2>4, <2>5
  <2>. QED  BY <1>1, <1>9, <2>2, <2>6 DEF Completing, now
<1>16. TablesTyped' /\ \A q \in Runs \ {r} : SameTables(q)
  BY <1>1, <1>6, <1>10 DEF TablesTyped, SameTables
<1>17. Inv(r)'
  BY <1>7, <1>13, <1>14 DEF Inv
<1>. QED  BY <1>2, <1>5, <1>16, <1>17, Assembled

-----------------------------------------------------------------------------
(* The whole system *)

Resolving == TypeOK /\ \A r \in Runs : Inv(r)

LEMMA Stepping ==
  ASSUME NEW r \in Runs, Before(r), Step(r)
  PROVE  Good(r)
BY Restarting, Reusing, Unreading, Loading, Comparing, Classifying, Persisting, Publishing, Tracked,
   Ending, Saving, Returning, Completed DEF Step

LEMMA WorldKept ==
  ASSUME TypeOK, SameWorld, FaultsTyped', UNCHANGED tables,
         run' \in [Runs -> RunRecord], staged' \in [Store -> SUBSET Records]
  PROVE  TypeOK'
BY WorldTyped, TablesKept DEF TypeOK, FaultsTyped

LEMMA Crashing ==
  ASSUME Resolving, Crash, SameWorld, staged' = staged
  PROVE  Resolving'
<1>1. TypeOK /\ FaultsTyped /\ UNCHANGED tables /\ staged' \in [Store -> SUBSET Records]
  BY DEF Resolving, TypeOK, FaultsTyped, Crash
<1>2. Grow /\ FaultsTyped'
  <2>1. Faulty
    BY Strikes DEF Crash, Faulty
  <2>. QED  BY <1>1, <2>1, FaultsGrow
<1>3. ASSUME NEW r \in Runs
      PROVE  run'[r] \in RunRecord /\ SamePlace(r) /\ Placed(run[r])'
  <2>1. run[r] \in RunRecord /\ Placed(run[r])
    BY <1>1 DEF Resolving, Inv, TypeOK
  <2>2. run'[r] = run[r] \/ run'[r] = [run[r] EXCEPT !.status = "dead"]
    BY DEF Crash
  <2>3. CASE run'[r] = run[r]
    BY <2>1, <2>3 DEF SamePlace, Placed
  <2>4. CASE run'[r] = [run[r] EXCEPT !.status = "dead"]
    <3>1. PICK n \in RunRecord : n = [run[r] EXCEPT !.status = "dead"]
      BY <2>1, FieldsKept DEF Status
    <3>2. /\ n.status = "dead" /\ n.at = run[r].at /\ n.pc = run[r].pc /\ n.data = run[r].data
          /\ n.out = run[r].out /\ n.records = run[r].records /\ n.clusters = run[r].clusters
      BY <2>1, <3>1 DEF RunRecord
    <3>. QED  BY <2>1, <2>4, <3>1, <3>2 DEF SamePlace, Placed
  <2>. QED  BY <2>2, <2>3, <2>4
<1>4. run' \in [Runs -> RunRecord]
  BY <1>3 DEF Crash
<1>5. TypeOK'
  BY <1>1, <1>2, <1>4, WorldKept
<1>6. \A r \in Runs : Inv(r)'
  BY <1>1, <1>2, <1>3, Staying, TablesKept DEF Resolving
<1>. QED  BY <1>5, <1>6 DEF Resolving

(* Records are staged, or nothing changes.                                 *)
LEMMA Resting ==
  ASSUME Resolving, SameWorld, UNCHANGED <<run, tables, faults>>,
         staged' \in [Store -> SUBSET Records]
  PROVE  Resolving'
<1>1. TypeOK /\ FaultsTyped /\ UNCHANGED tables /\ Sound
  BY DEF Resolving, TypeOK, FaultsTyped, Sound
<1>2. Grow /\ FaultsTyped'
  BY <1>1, FaultsGrow DEF Faulty
<1>3. TypeOK'
  <2>1. run' \in [Runs -> RunRecord]
    BY <1>1 DEF TypeOK
  <2>. QED  BY <1>1, <1>2, <2>1, WorldKept
<1>4. \A r \in Runs : SamePlace(r) /\ Placed(run[r])'
  BY DEF SamePlace, Resolving, Inv, Placed
<1>5. \A r \in Runs : Inv(r)'
  BY <1>1, <1>2, <1>4, Staying, TablesKept DEF Resolving
<1>. QED  BY <1>3, <1>5 DEF Resolving

LEMMA Started == ASSUME Init PROVE Resolving
<1>1. [Fresh(0) EXCEPT !.status = "new"] \in RunRecord
  BY FreshMade, ResolutionAssumption DEF ResolutionAssumption
<1>2. PICK fresh \in RunRecord :
        fresh = [Fresh(0) EXCEPT !.status = "new"] /\ fresh.at = Load /\ fresh.pc = "ready"
  BY <1>1 DEF Fresh
<1>3. TypeOK
  <2>1. run \in [Runs -> RunRecord]
    BY <1>1 DEF Init
  <2>2. staged \in [Store -> SUBSET Records]
    BY ResolutionAssumption DEF ResolutionAssumption, Init
  <2>3. /\ proposals \in [Runs -> Seq([store : Store, pairs : SUBSET Pairs])]
        /\ golden \in [Runs -> Seq(BatchType)]
        /\ provenance \in [Runs -> Seq([batch : Nat, store : Store])]
    BY DEF Init
  <2>4. /\ checkpoint \in [Runs -> [Assets -> FrameType \cup {None}]]
        /\ resolved \in [Runs -> SUBSET (Nat \X SUBSET Ids)]
        /\ finished \in [Runs -> Nat] /\ faults \in [Faults -> Nat]
    BY DEF Init
  <2>. QED  BY <2>1, <2>2, <2>3, <2>4 DEF Init, TypeOK
<1>4. ASSUME NEW r \in Runs PROVE Inv(r)
  <2>1. /\ run[r].at = Load /\ run[r].pc = "ready" /\ run[r].status = "new"
        /\ \A a \in Assets : checkpoint[r][a] = None
        /\ proposals[r] = <<>> /\ golden[r] = <<>> /\ finished[r] = 0
    BY <1>2 DEF Init, Fresh
  <2>2. Load # Golden /\ Load # Classify /\ Load \in Assets /\ Golden \in Assets /\ Classify \in Assets
        /\ \A a \in Assets : Load # a + 1
    BY DEF Load, Golden, Classify, Assets
  <2>3. Losses \in Nat
    <3>1. Struck("checkpoint") \in Nat /\ Struck("unreadable") \in Nat /\ Struck("ambiguous") \in Nat
      BY <1>3 DEF TypeOK, Struck
    <3>. QED  BY <3>1 DEF Losses
  <2>4. Placed(run[r]) /\ Framed(r)
    BY <2>1, <2>2 DEF Placed, Framed, Has, Built
  <2>5. Written(r)
    BY <2>1 DEF Written
  <2>6. ~Held(r) /\ ~Kept(r) /\ ~Begun(r) /\ ~Over(r)
    BY <2>1, <2>2 DEF Held, Kept, Begun, Over, Built
  <2>7. Counted(r)
    BY <2>1, <2>3, <2>6 DEF Counted
  <2>8. Asking(r)
    BY <2>1, <2>2, <2>6 DEF Asking, Reaches, Built
  <2>9. Announcing(r)
    BY <2>1, <2>2, <2>6 DEF Announcing
  <2>10. Completing(r)
    <3>1. Ended(r) = {}
      BY <2>1, <2>2 DEF Ended
    <3>2. {n \in Ended(r) : Announced(r, n)} = {}
      BY <3>1
    <3>3. Cardinality({n \in Ended(r) : Announced(r, n)}) = 0
      BY <3>2, FS_EmptySet
    <3>. QED  BY <2>1, <3>3 DEF Completing
  <2>11. Traced(r)
    BY <2>6 DEF Traced
  <2>. QED  BY <2>4, <2>5, <2>7, <2>8, <2>9, <2>10, <2>11 DEF Inv
<1>. QED  BY <1>3, <1>4 DEF Resolving

LEMMA Resolved == Spec => []Resolving
<1>1. Init => Resolving
  BY Started
<1>2. Resolving /\ [Next]_vars => Resolving'
  <2>. SUFFICES ASSUME Resolving, [Next]_vars PROVE Resolving'
    OBVIOUS
  <2>1. CASE UNCHANGED vars
    <3>1. SameWorld /\ UNCHANGED <<run, tables, faults>> /\ staged' \in [Store -> SUBSET Records]
      BY <2>1 DEF vars, given, SameWorld, Resolving, TypeOK
    <3>. QED  BY <3>1, Resting
  <2>2. ASSUME NEW r \in Runs, Step(r), UNCHANGED staged, SameWorld PROVE Resolving'
    <3>1. Before(r)
      BY <2>2 DEF Before, Resolving
    <3>2. Good(r)
      BY <2>2, <3>1, Stepping
    <3>3. ASSUME NEW q \in Runs \ {r} PROVE Inv(q)'
      <4>1. TypeOK /\ Inv(q) /\ Grow /\ SameTables(q) /\ run'[q] = run[q]
        BY <3>2 DEF Resolving, Good
      <4>2. SamePlace(q) /\ Placed(run[q])'
        BY <4>1 DEF SamePlace, Inv, Placed
      <4>. QED  BY <2>2, <4>1, <4>2, Staying
    <3>. QED  BY <3>2, <3>3 DEF Good, Resolving
  <2>3. ASSUME NEW x \in Records, NEW store \in Store, Stage(x, store), SameWorld PROVE Resolving'
    <3>1. staged' \in [Store -> SUBSET Records]
      BY <2>3 DEF Stage, Resolving, TypeOK
    <3>. QED  BY <2>3, <3>1, Resting DEF Stage
  <2>4. CASE Crash /\ UNCHANGED staged /\ SameWorld
    BY <2>4, Crashing
  <2>. QED  BY <2>1, <2>2, <2>3, <2>4 DEF Next, given, SameWorld
<1>. QED  BY <1>1, <1>2, PTL DEF Spec

-----------------------------------------------------------------------------
(* The theorems *)

(* Runs, checkpoints and what was written keep their types.                *)
THEOREM TypeCorrect == Spec => []TypeOK
<1>1. Resolving => TypeOK
  BY DEF Resolving
<1>. QED  BY <1>1, Resolved, PTL

(* Every record a run loaded is a source of exactly one golden record of   *)
(* each batch, the records that match none included.                       *)
THEOREM GoldenPartitioned == Spec => []GoldenPartition
<1>1. Resolving => GoldenPartition
  BY DEF Resolving, Inv, Written, GoldenPartition
<1>. QED  BY <1>1, Resolved, PTL

(* In each batch two records are one entity exactly if matches among the   *)
(* records compared lead from one to the other: the rows are those, in     *)
(* some order, and union-find computes their connected components.         *)
THEOREM EntitiesAreLinked == Spec => []SameEntity
<1>1. Resolving => SameEntity
  <2>1. \A o : MatchesOf(world, o) = Scored(o, 90..100)
    BY DEF MatchesOf, Scored
  <2>. QED  BY <2>1 DEF Resolving, Inv, Written, Joined, SameEntity
<1>. QED  BY <1>1, Resolved, PTL

(* Once a run has golden records, the pairs people are to decide are       *)
(* er_candidates, and no other is.                                         *)
THEOREM ReviewsProposed == Spec => []ReviewProposed
<1>1. ASSUME Resolving, NEW r \in Runs, golden[r] # <<>>
      PROVE  LET due == Scored(LastBatch(r).of, 70..89)
                 proposed == {proposals[r][i].pairs : i \in 1..Len(proposals[r])}
             IN  /\ due # {} => due \in proposed \/ Struck("sqlite") > 0
                 /\ due = {} => proposed = {} \/ Struck("checkpoint") + Struck("unreadable") > 0
  <2>1. golden[r] \in Seq(BatchType)
    BY <1>1 DEF Resolving, TypeOK
  <2>2. PICK k \in Nat : k = Len(golden[r]) /\ k \in 1..k
    BY <1>1, <2>1
  <2>3. golden[r][k] \in BatchType
    BY <2>1, <2>2
  <2>4. PICK o \in SUBSET Ids : o = LastBatch(r).of
    BY <2>2, <2>3 DEF LastBatch, BatchType
  <2>5. Asked(r, o)
    BY <1>1, <2>4 DEF Resolving, Inv, Asking, Reaches
  <2>6. Struck("checkpoint") \in Nat /\ Struck("unreadable") \in Nat
    BY <1>1 DEF Resolving, TypeOK, Struck
  <2>7. Repeatable => Struck("checkpoint") + Struck("unreadable") > 0
    BY <2>6 DEF Repeatable
  <2>. QED  BY <2>4, <2>5, <2>7 DEF Asked, ToReview, Proposed
<1>2. Resolving => ReviewProposed
  BY <1>1 DEF ReviewProposed
<1>. QED  BY <1>2, Resolved, PTL

LEMMA CountedOnce ==
  ASSUME Resolving, NEW r \in Runs
  PROVE  Len(proposals[r]) <= Tolerance /\ Len(golden[r]) <= Tolerance
<1>1. /\ Len(proposals[r]) \in Nat /\ Len(golden[r]) \in Nat
      /\ Struck("checkpoint") \in Nat /\ Struck("unreadable") \in Nat /\ Struck("ambiguous") \in Nat
  BY DEF Resolving, TypeOK, Struck
<1>2. /\ Len(proposals[r]) <= Losses + (IF Held(r) THEN 1 ELSE 0)
      /\ Len(golden[r]) <= Losses + (IF Kept(r) THEN 1 ELSE 0)
  BY DEF Resolving, Inv, Counted
<1>3. Tolerance = Losses + 1 /\ Losses \in Nat
  BY <1>1 DEF Tolerance, Losses
<1>. QED  BY <1>1, <1>2, <1>3

(* Pairs are put before the reviewers once for each run, but for each      *)
(* checkpoint that was lost or could not be read and each lost answer,     *)
(* whatever the retries.                                                   *)
THEOREM ProposedCounted == Spec => []ProposedOnce
<1>1. Resolving => ProposedOnce
  BY CountedOnce DEF ProposedOnce
<1>. QED  BY <1>1, Resolved, PTL

(* So is a batch of golden records written.                                *)
THEOREM ResolvedCounted == Spec => []ResolvedOnce
<1>1. Resolving => ResolvedOnce
  BY CountedOnce DEF ResolvedOnce
<1>. QED  BY <1>1, Resolved, PTL

(* A completed run has golden records, and has published every one of the  *)
(* batch it went on with unless Kafka refused: its last, or an earlier one *)
(* if a checkpoint could not be read.                                      *)
THEOREM CompletedAnnounced == Spec => []CompletedIsAnnounced
<1>1. Resolving => CompletedIsAnnounced
  BY DEF Resolving, Inv, Placed, Announcing, Over, Out, CompletedIsAnnounced
<1>. QED  BY <1>1, Resolved, PTL

(* No completion is published before all the golden records of its batch.  *)
THEOREM CompletionLast == Spec => []CompletionIsLast
<1>1. ASSUME Resolving, NEW r \in Runs, Struck("kafka") = 0
      PROVE  finished[r] <= Cardinality({n \in 1..Len(golden[r]) : Announced(r, n)})
  <2>1. PICK k \in Nat : k = Len(golden[r])
    BY <1>1 DEF Resolving, TypeOK
  <2>. DEFINE A == {n \in Ended(r) : Announced(r, n)}
              B == {n \in 1..k : Announced(r, n)}
  <2>2. A \subseteq B /\ B \subseteq 1..k
    <3>1. Ended(r) = 1..k \/ Ended(r) = 1..k - 1
      BY <2>1 DEF Ended
    <3>. QED  BY <3>1
  <2>3. finished[r] <= Cardinality(A) /\ finished[r] \in Nat
    BY <1>1 DEF Resolving, TypeOK, Inv, Completing
  <2>. HIDE DEF A, B
  <2>4. IsFiniteSet(B)
    <3>1. IsFiniteSet(1..k)
      BY FS_Interval
    <3>. QED  BY <2>2, <3>1, FS_Subset
  <2>5. Cardinality(A) <= Cardinality(B) /\ Cardinality(A) \in Nat /\ Cardinality(B) \in Nat
    BY <2>2, <2>4, FS_Subset, FS_CardinalityType
  <2>6. finished[r] <= Cardinality(B)
    BY <2>3, <2>5
  <2>. QED  BY <2>1, <2>6 DEF B
<1>2. Resolving => CompletionIsLast
  BY <1>1 DEF CompletionIsLast
<1>. QED  BY <1>2, Resolved, PTL

(* In production, unless synthetic data was allowed there explicitly, and  *)
(* wherever it is explicitly forbidden, no record that was not staged is   *)
(* resolved or proposed.                                                   *)
THEOREM ProductionIsSafe == Spec => []ProductionSafe
<1>1. Resolving => ProductionSafe
  BY DEF Resolving, Inv, Written, ProductionSafe, MayFallBack
<1>. QED  BY <1>1, Resolved, PTL

(* The provenance of the batch a completed run went on with is in the      *)
(* database of its golden records, or in SQLite because PostgreSQL failed  *)
(* or its foreign keys refused it, unless SQLite refused it too.           *)
THEOREM ProvenanceBeside == Spec => []TracedBeside
<1>1. ASSUME Resolving, NEW r \in Runs, run[r].status = "completed", Struck("sqlite") = 0
      PROVE  \E n \in Settled(r) : Beside(r, n)
  <2>1. Over(r)
    BY <1>1 DEF Resolving, Inv, Placed, Over
  <2>. QED  BY <1>1, <2>1 DEF Resolving, Inv, Traced
<1>2. Resolving => TracedBeside
  BY <1>1 DEF TracedBeside, Beside
<1>. QED  BY <1>2, Resolved, PTL
=============================================================================

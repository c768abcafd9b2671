---------------------------- MODULE ConsumerProofs ----------------------------
(***************************************************************************)
(* What TLAPS proves of IngestConsumer, for topics, batches, replays and   *)
(* faults without bound: its variables keep their types, no message is     *)
(* passed over but those that a stop or a crash found fetched, none comes  *)
(* back more often than there were faults, and what the table says of      *)
(* replays is what the topic carries.                                      *)
(***************************************************************************)
EXTENDS IngestConsumer, FiniteSetTheorems, TLAPS

Disposal(n) == [offset : 1..n, outcome : {"handled", "quarantined", "dropped"}]

LEMMA HeadAndTail ==
  ASSUME NEW S, NEW s \in Seq(S), s # <<>>
  PROVE  /\ Head(s) \in S /\ Tail(s) \in Seq(S)
         /\ Elements(s) = {Head(s)} \cup Elements(Tail(s))
<1>1. /\ Head(s) = s[1] /\ Head(s) \in S /\ Tail(s) \in Seq(S) /\ Len(s) \in Nat \ {0}
      /\ Len(Tail(s)) = Len(s) - 1 /\ \A i \in 1..Len(Tail(s)) : Tail(s)[i] = s[i + 1]
  OBVIOUS
<1>2. ASSUME NEW x \in Elements(s) PROVE x \in {Head(s)} \cup Elements(Tail(s))
  <2>1. PICK i \in 1..Len(s) : x = s[i]
    BY <1>2 DEF Elements
  <2>2. CASE i # 1
    <3>1. i - 1 \in 1..Len(Tail(s)) /\ Tail(s)[i - 1] = s[i]
      BY <1>1, <2>2
    <3>. QED  BY <2>1, <3>1 DEF Elements
  <2>. QED  BY <1>1, <2>1, <2>2
<1>3. Head(s) \in Elements(s)
  BY <1>1 DEF Elements
<1>4. ASSUME NEW x \in Elements(Tail(s)) PROVE x \in Elements(s)
  <2>1. PICK i \in 1..Len(Tail(s)) : x = Tail(s)[i]
    BY <1>4 DEF Elements
  <2>2. i + 1 \in 1..Len(s) /\ x = s[i + 1]
    BY <1>1, <2>1
  <2>. QED  BY <2>2 DEF Elements
<1>. QED  BY <1>1, <1>2, <1>3, <1>4

LEMMA Appending ==
  ASSUME NEW S, NEW s \in Seq(S), NEW e \in S
  PROVE  Append(s, e) \in Seq(S) /\ Len(Append(s, e)) = Len(s) + 1
BY DEF Elements

LEMMA Wider ==
  ASSUME NEW S, NEW T, S \subseteq T, NEW s \in Seq(S)
  PROVE  s \in Seq(T)
OBVIOUS

-----------------------------------------------------------------------------
(* Types *)

(* The parts of TypeOK: the topic and the table, which only grow; and the  *)
(* consumer.                                                               *)
LEMMA RecordingTyped ==
  ASSUME store \in Seq(Q!Entry), NEW message \in Q!Message, Q!RecordFailure(message)
  PROVE  store' \in Seq(Q!Entry) /\ Len(store') = Len(store) + 1
<1>. DEFINE entry == [message |-> message, status |-> "quarantined", retry_count |-> 0]
<1>1. entry \in Q!Entry
  BY DEF Q!Entry
<1>2. store' = Append(store, entry)
  BY DEF Q!RecordFailure
<1>. HIDE DEF entry
<1>. QED  BY <1>1, <1>2, Appending

LEMMA EntriesUpdated ==
  ASSUME NEW e \in Q!Entry
  PROVE  Q!Replayed(e) \in Q!Entry /\ [e EXCEPT !.status = "discarded"] \in Q!Entry
<1>1. e.retry_count \in Nat /\ e.retry_count + 1 \in Nat
  BY DEF Q!Entry
<1>2. [e EXCEPT !.status = "replayed"] \in Q!Entry
  BY DEF Q!Entry
<1>3. ASSUME NEW f \in Q!Entry PROVE [f EXCEPT !.retry_count = e.retry_count + 1] \in Q!Entry
  BY <1>1 DEF Q!Entry
<1>4. Q!Replayed(e) = [[e EXCEPT !.status = "replayed"] EXCEPT !.retry_count = e.retry_count + 1]
  BY DEF Q!Replayed, Q!Entry
<1>5. [e EXCEPT !.status = "discarded"] \in Q!Entry
  BY DEF Q!Entry
<1>. QED  BY <1>2, <1>3, <1>4, <1>5

LEMMA Readdressed ==
  ASSUME NEW entry \in Q!Entry, NEW i \in Nat
  PROVE  [entry.message EXCEPT !.from = i] \in Q!Message
<1>1. entry.message \in Q!Message
  BY DEF Q!Entry
<1>. QED  BY <1>1 DEF Q!Message

LEMMA OperatingTyped ==
  ASSUME log \in Seq(Q!Message), store \in Seq(Q!Entry),
         replaying \in 0..Len(store),
         NEW i \in 1..Len(store), Q!Replay(i) \/ Q!Discard(i) \/ (Q!Mark /\ i = replaying)
  PROVE  /\ log' \in Seq(Q!Message) /\ store' \in Seq(Q!Entry)
         /\ Len(log') >= Len(log) /\ Len(store') = Len(store)
         /\ replaying' \in 0..Len(store) /\ interrupted' = interrupted
<1>1. store[i] \in Q!Entry /\ i \in Nat /\ Len(log) \in Nat
  OBVIOUS
<1>2. ASSUME NEW entry \in Q!Entry
      PROVE  [store EXCEPT ![i] = entry] \in Seq(Q!Entry) /\ Len([store EXCEPT ![i] = entry]) = Len(store)
  OBVIOUS
<1>3. CASE Q!Replay(i)
  <2>2. store' = store /\ replaying' = i /\ interrupted' = interrupted
    BY <1>3 DEF Q!Replay
  <2>3. [store[i].message EXCEPT !.from = i] \in Q!Message
    BY <1>1, Readdressed
  <2>4. Append(log, [store[i].message EXCEPT !.from = i]) \in Seq(Q!Message)
        /\ Len(Append(log, [store[i].message EXCEPT !.from = i])) = Len(log) + 1
    BY <2>3, Appending
  <2>. QED  BY <1>1, <1>3, <2>2, <2>4 DEF Q!Replay, Q!Republish
<1>5. CASE Q!Mark /\ i = replaying
  <2>1. Q!Replayed(store[i]) \in Q!Entry
    BY <1>1, EntriesUpdated
  <2>2. /\ store' = [store EXCEPT ![i] = Q!Replayed(store[i])]
        /\ replaying' = 0 /\ interrupted' = interrupted /\ log' = log
    BY <1>1, <1>5 DEF Q!Mark
  <2>. QED  BY <1>1, <1>2, <2>1, <2>2
<1>4. CASE Q!Discard(i)
  <2>1. [store[i] EXCEPT !.status = "discarded"] \in Q!Entry
    BY <1>1, EntriesUpdated
  <2>. QED  BY <1>1, <1>2, <1>4, <2>1 DEF Q!Discard
<1>. QED  BY <1>3, <1>4, <1>5

LEMMA RestTyped ==
  ASSUME TypeOK, log' \in Seq(Q!Message), Len(log') >= Len(log), store' \in Seq(Q!Entry),
         replaying' \in 0..Len(store'), interrupted' = interrupted, UNCHANGED consumer
  PROVE  TypeOK'
<1>1. Len(log) \in Nat /\ Len(log') \in Nat
  BY DEF TypeOK
<1>2. 1..Len(log) \subseteq 1..Len(log') /\ Disposal(Len(log)) \subseteq Disposal(Len(log'))
  BY <1>1 DEF Disposal
<1>3. batch' \in Seq(1..Len(log'))
  BY <1>2, Wider DEF TypeOK, consumer
<1>4. disposed' \in Seq(Disposal(Len(log')))
  BY <1>2, Wider DEF TypeOK, consumer, Disposal
<1>. QED  BY <1>1, <1>2, <1>3, <1>4 DEF TypeOK, consumer, Disposal

(* What a message comes to. *)
LEMMA DispatchTyped ==
  ASSUME ConsumerAssumption, TypeOK, Dispatch
  PROVE  /\ TypeOK'
         /\ Head(batch) \in 1..Len(log) /\ batch # <<>>
         /\ \E outcome : disposed' = Append(disposed, [offset |-> Head(batch), outcome |-> outcome])
<1>1. batch \in Seq(1..Len(log)) /\ batch # <<>>
  BY DEF TypeOK, Dispatch
<1>2. /\ Head(batch) \in 1..Len(log) /\ Tail(batch) \in Seq(1..Len(log))
      /\ Elements(Tail(batch)) \subseteq 1..Len(log)
  BY <1>1, HeadAndTail DEF Elements
<1>3. log[Head(batch)] \in Q!Message
  BY <1>2 DEF TypeOK
<1>4. PICK outcome \in Outcomes(log[Head(batch)].kind) :
        /\ disposed' = Append(disposed, [offset |-> Head(batch), outcome |-> outcome])
        /\ IF outcome = "quarantined" THEN Q!RecordFailure(log[Head(batch)]) ELSE UNCHANGED store
        /\ processed' = (processed \/ outcome = "handled")
  BY DEF Dispatch
<1>5. outcome \in {"handled", "quarantined", "dropped"}
  BY <1>4 DEF Outcomes
<1>6. disposed' \in Seq(Disposal(Len(log)))
  <2>. DEFINE entry == [offset |-> Head(batch), outcome |-> outcome]
  <2>1. entry \in Disposal(Len(log)) /\ disposed \in Seq(Disposal(Len(log)))
    BY <1>2, <1>5 DEF Disposal, TypeOK
  <2>2. disposed' = Append(disposed, entry)
    BY <1>4
  <2>. HIDE DEF entry
  <2>. QED  BY <2>1, <2>2, Appending
<1>7. store' \in Seq(Q!Entry) /\ Len(store') \in {Len(store), Len(store) + 1}
  BY <1>3, <1>4, RecordingTyped DEF TypeOK
<1>12. replaying' \in 0..Len(store') /\ interrupted' \in 0..faults'
  BY <1>7 DEF Dispatch, replays, TypeOK
<1>8. processed' \in BOOLEAN
  BY <1>4
<1>9. /\ batch' \in Seq(1..Len(log)) /\ phase' \in {"commit", "dispatch"}
      /\ phase' = "dispatch" => batch' # <<>>
  <2>1. batch' \in {Tail(batch), <<>>}
    BY DEF Dispatch, Rest
  <2>2. batch' \in Seq(1..Len(log))
    <3>1. <<>> \in Seq(1..Len(log))
      OBVIOUS
    <3>. QED  BY <1>2, <2>1, <3>1
  <2>3. phase' = IF batch' = <<>> THEN "commit" ELSE "dispatch"
    BY DEF Dispatch
  <2>. QED  BY <2>2, <2>3
<1>10. left' \subseteq 1..Len(log)
  BY <1>2 DEF Dispatch, TypeOK
<1>11. TypeOK'
  BY <1>6, <1>7, <1>8, <1>9, <1>10, <1>12 DEF TypeOK, Dispatch, Disposal
<1>. QED  BY <1>1, <1>2, <1>4, <1>11

LEMMA FetchTyped ==
  ASSUME ConsumerAssumption, TypeOK, Consume
  PROVE  /\ TypeOK'
         /\ \A o \in 1..position' : o \in 1..position \/ o \in Elements(batch')
<1>1. PICK n \in 1..BatchSize : /\ position + n <= Len(log)
                                /\ batch' = [i \in 1..n |-> position + i]
                                /\ position' = position + n
  BY DEF Consume
<1>2. n \in Nat \ {0} /\ position \in Nat /\ Len(log) \in Nat
  BY DEF ConsumerAssumption, TypeOK
<1>3. /\ \A i \in 1..n : position + i \in 1..Len(log)
      /\ position' \in 0..Len(log)
  BY <1>1, <1>2
<1>4. batch' \in Seq(1..Len(log)) /\ Len(batch') = n
  BY <1>1, <1>2, <1>3
<1>5. TypeOK'
  BY <1>2, <1>3, <1>4 DEF Consume, TypeOK, replays
<1>6. ASSUME NEW o \in 1..position', o \notin 1..position PROVE o \in Elements(batch')
  <2>1. o - position \in 1..n /\ batch'[o - position] = o
    BY <1>1, <1>2, <1>6
  <2>. QED  BY <1>4, <2>1 DEF Elements
<1>. QED  BY <1>5, <1>6

LEMMA FaultsBounded == TypeOK => faults \in 0..MaxFaults /\ MaxFaults \in Nat
BY ConsumerAssumption DEF TypeOK, ConsumerAssumption

LEMMA InterruptTyped ==
  ASSUME TypeOK, Q!Interrupt, faults' = faults + 1
  PROVE  /\ log' = log /\ store' = store /\ replaying' \in 0..Len(store')
         /\ interrupted' \in 0..faults'
<1>1. /\ interrupted \in 0..faults /\ faults \in Nat /\ Len(store) \in Nat
      /\ interrupted' \in {interrupted, interrupted + 1}
  BY DEF TypeOK, Q!Interrupt
<1>. QED  BY <1>1 DEF Q!Interrupt

LEMMA StepTyped == TypeOK /\ [Next]_vars => TypeOK'
<1>. SUFFICES ASSUME TypeOK, [Next]_vars PROVE TypeOK'
  OBVIOUS
<1>. USE ConsumerAssumption
<1>1. ASSUME NEW kind \in Kinds, Publish(kind) PROVE TypeOK'
  <2>. DEFINE message == [kind |-> kind, from |-> 0]
  <2>1. message \in Q!Message /\ log \in Seq(Q!Message)
    BY DEF Q!Message, TypeOK
  <2>2. log' = Append(log, message) /\ store' = store /\ UNCHANGED consumer
        /\ replaying' = replaying /\ interrupted' = interrupted
    BY <1>1 DEF Publish, consumer, replays
  <2>. HIDE DEF message
  <2>3. log' \in Seq(Q!Message) /\ Len(log') >= Len(log)
    BY <2>1, <2>2, Appending
  <2>. QED  BY <2>2, <2>3, RestTyped DEF TypeOK
<1>2. CASE Start
  BY <1>2 DEF Start, TypeOK, ResumeAt, replays
<1>3. CASE Consume
  BY <1>3, FetchTyped
<1>4. CASE Dispatch
  BY <1>4, DispatchTyped
<1>5. CASE CommitBatch
  BY <1>5 DEF CommitBatch, TypeOK, replays
<1>6. CASE AutoCommit \/ Stop \/ Close
  <2>1. CASE AutoCommit
    BY <2>1 DEF AutoCommit, TypeOK, replays
  <2>2. CASE Stop
    <3>1. faults' = faults + 1 /\ faults < MaxFaults
      BY <2>2 DEF Stop
    <3>2. faults' \in 0..MaxFaults /\ interrupted \in 0..faults'
      BY <3>1, FaultsBounded DEF TypeOK
    <3>. QED  BY <2>2, <3>2 DEF Stop, TypeOK, replays
  <2>3. CASE Close
    BY <2>3 DEF Close, TypeOK, replays
  <2>. QED  BY <1>6, <2>1, <2>2, <2>3
<1>7. CASE Crash
  <2>1. Elements(batch) \subseteq 1..Len(log)
    BY DEF Elements, TypeOK
  <2>2. batch' \in Seq(1..Len(log))
    BY <1>7 DEF Crash
  <2>3. left' \subseteq 1..Len(log) /\ faults' = faults + 1 /\ faults < MaxFaults
    BY <1>7, <2>1 DEF Crash, TypeOK
  <2>4. faults' \in 0..MaxFaults
    BY <2>3, FaultsBounded
  <2>5. /\ log' = log /\ store' = store /\ replaying' \in 0..Len(store')
        /\ interrupted' \in 0..faults'
    BY <1>7, <2>3, InterruptTyped DEF Crash
  <2>. QED  BY <1>7, <2>2, <2>3, <2>4, <2>5 DEF Crash, TypeOK
<1>8. CASE Evict \/ Rejoin
  <2>1. CASE Evict
    <3>1. faults' = faults + 1 /\ faults < MaxFaults
      BY <2>1 DEF Evict
    <3>2. faults' \in 0..MaxFaults /\ interrupted \in 0..faults'
      BY <3>1, FaultsBounded DEF TypeOK
    <3>. QED  BY <2>1, <3>2 DEF Evict, TypeOK, replays
  <2>2. CASE Rejoin
    BY <2>2 DEF Rejoin, TypeOK, ResumeAt, replays
  <2>. QED  BY <1>8, <2>1, <2>2
<1>9. CASE Operate
  <2>1. PICK i \in 1..Len(store) : Q!Replay(i) \/ Q!Discard(i) \/ (Q!Mark /\ i = replaying)
    BY <1>9 DEF Operate, Q!Mark, TypeOK
  <2>2. /\ log' \in Seq(Q!Message) /\ store' \in Seq(Q!Entry) /\ Len(log') >= Len(log)
        /\ replaying' \in 0..Len(store') /\ interrupted' = interrupted
    BY <2>1, OperatingTyped DEF TypeOK
  <2>. QED  BY <1>9, <2>2, RestTyped DEF Operate
<1>11. CASE UpdateFails
  <2>1. faults' = faults + 1 /\ faults < MaxFaults
    BY <1>11 DEF UpdateFails
  <2>2. faults' \in 0..MaxFaults
    BY <2>1, FaultsBounded
  <2>3. /\ log' = log /\ store' = store /\ replaying' \in 0..Len(store')
        /\ interrupted' \in 0..faults'
    BY <1>11, <2>1, InterruptTyped DEF UpdateFails
  <2>. QED  BY <1>11, <2>2, <2>3 DEF UpdateFails, TypeOK
<1>10. CASE UNCHANGED vars
  BY <1>10 DEF vars, replays, TypeOK
<1>. QED  BY <1>1, <1>2, <1>3, <1>4, <1>5, <1>6, <1>7, <1>8, <1>9, <1>10, <1>11 DEF Next, Loop

(* Every variable of the consumer keeps its type.                          *)
THEOREM TypeCorrect == Spec => []TypeOK
<1>1. Init => TypeOK
  <2>. SUFFICES ASSUME Init PROVE TypeOK
    OBVIOUS
  <2>1. Len(<<>>) = 0 /\ 0 \in 0..0 /\ 0 \in 0..MaxFaults
    BY ConsumerAssumption DEF ConsumerAssumption
  <2>2. /\ log \in Seq(Q!Message) /\ store \in Seq(Q!Entry) /\ batch \in Seq(1..Len(log))
        /\ disposed \in Seq([offset : 1..Len(log), outcome : {"handled", "quarantined", "dropped"}])
    BY DEF Init
  <2>. QED  BY <2>1, <2>2 DEF Init, TypeOK
<1>. QED  BY <1>1, StepTyped, PTL DEF Spec

-----------------------------------------------------------------------------
(* Nothing is passed over *)

(* Every message that was fetched was disposed of, waits in the batch, or  *)
(* was left by a stop or a crash.  Commits do not run ahead of the fetch,  *)
(* and whoever fetches or resumes has no batch.                            *)
Accounted(n) == \A o \in 1..n : o \in DisposedOf \cup Elements(batch) \cup left
Covered ==
  /\ Accounted(position) /\ committed <= position
  /\ phase # "dispatch" => batch = <<>>

LEMMA NothingElements == Elements(<<>>) = {}
BY DEF Elements

LEMMA StepCovered == TypeOK /\ Covered /\ [Next]_vars => Covered'
<1>. SUFFICES ASSUME TypeOK, Covered, [Next]_vars PROVE Covered'
  OBVIOUS
<1>. USE ConsumerAssumption
<1>0. committed \in Nat /\ position \in Nat
  BY DEF TypeOK
<1>1. ASSUME UNCHANGED <<batch, disposed, left>>, position' \in {position, committed},
             committed' \in {position, committed}, committed' <= position',
             phase' # "dispatch" => phase # "dispatch" \/ batch = <<>>
      PROVE  Covered'
  BY <1>0, <1>1 DEF Covered, Accounted, DisposedOf
<1>2. CASE \/ \E kind \in Kinds : Publish(kind)
           \/ Operate \/ UpdateFails \/ AutoCommit \/ Stop \/ Evict \/ UNCHANGED vars
  <2>1. /\ UNCHANGED <<batch, position, disposed, left, phase>>
        /\ committed' \in {position, committed}
    BY <1>2 DEF Publish, Operate, UpdateFails, consumer, AutoCommit, Stop, Evict, vars
  <2>. QED  BY <1>0, <1>1, <2>1 DEF Covered
<1>3. CASE Start \/ CommitBatch \/ Close \/ Rejoin
  BY <1>0, <1>1, <1>3 DEF Start, CommitBatch, Close, Rejoin, ResumeAt, Covered
<1>4. CASE Consume
  <2>1. \A o \in 1..position' : o \in 1..position \/ o \in Elements(batch')
    BY <1>4, FetchTyped
  <2>2. /\ UNCHANGED <<disposed, left, committed>> /\ phase' = "dispatch" /\ batch = <<>>
        /\ position' >= position
    BY <1>0, <1>4 DEF Consume, Covered
  <2>3. DisposedOf' = DisposedOf
    BY <2>2 DEF DisposedOf
  <2>4. \A o \in 1..position' : o \in DisposedOf' \cup Elements(batch') \cup left'
    BY <2>1, <2>2, <2>3, NothingElements DEF Covered, Accounted
  <2>5. committed' <= position'
    BY <1>0, <1>4, <2>2 DEF Covered, Consume, ConsumerAssumption
  <2>. QED  BY <2>2, <2>4, <2>5 DEF Covered, Accounted
<1>5. CASE Dispatch
  <2>1. /\ TypeOK' /\ Head(batch) \in 1..Len(log) /\ batch # <<>>
        /\ \E outcome : disposed' = Append(disposed, [offset |-> Head(batch), outcome |-> outcome])
    BY <1>5, DispatchTyped
  <2>2. PICK outcome : disposed' = Append(disposed, [offset |-> Head(batch), outcome |-> outcome])
    BY <2>1
  <2>. DEFINE entry == [offset |-> Head(batch), outcome |-> outcome]
  <2>3. entry.offset = Head(batch) /\ disposed' = Append(disposed, entry)
    BY <2>2
  <2>. HIDE DEF entry
  <2>4. DisposedOf \cup {Head(batch)} \subseteq DisposedOf'
    <3>1. /\ Len(disposed) \in Nat /\ Len(disposed') = Len(disposed) + 1
          /\ \A i \in 1..Len(disposed) : disposed'[i] = disposed[i]
          /\ disposed'[Len(disposed) + 1] = entry
      BY <2>3 DEF TypeOK
    <3>2. Elements(disposed) \subseteq Elements(disposed') /\ entry \in Elements(disposed')
      BY <3>1 DEF Elements
    <3>. QED  BY <2>3, <3>2 DEF DisposedOf
  <2>5. Elements(batch) = {Head(batch)} \cup Elements(Tail(batch))
    BY <2>1, HeadAndTail DEF TypeOK
  <2>6. /\ UNCHANGED <<position, committed>>
        /\ Elements(Tail(batch)) \cup left \subseteq Elements(batch') \cup left'
        /\ phase' # "dispatch" => batch' = <<>>
    BY <1>5 DEF Dispatch, Rest
  <2>. QED  BY <2>4, <2>5, <2>6 DEF Covered, Accounted
<1>6. CASE Crash
  BY <1>0, <1>6, NothingElements DEF Crash, Covered, Accounted, DisposedOf
<1>. QED  BY <1>2, <1>3, <1>4, <1>5, <1>6 DEF Next, Loop

(* Nothing but what a stop or a crash found fetched is committed without   *)
(* having been handled, quarantined or dropped: commits that run ahead of  *)
(* the dispatch, evictions and restarts pass nothing over.                 *)
THEOREM NothingElseSkipped == Spec => []OnlyInterruptedSkipped
<1>1. Init => Covered
  BY DEF Init, Covered, Accounted
<1>2. TypeOK /\ Covered => OnlyInterruptedSkipped
  BY DEF TypeOK, Covered, Accounted, OnlyInterruptedSkipped
<1>. QED  BY <1>1, <1>2, TypeCorrect, StepCovered, PTL DEF Spec

-----------------------------------------------------------------------------
(* Replays *)

(* Copies are of entries that there are, and one that is being replayed    *)
(* has its copy already when no publication fails.                         *)
Uncounted(i) == interrupted + (IF replaying = i THEN 1 ELSE 0)
Balanced(i) ==
  /\ Cardinality(Q!Copies(i)) <= store[i].retry_count + Uncounted(i)
  /\ PublishFails \/ store[i].retry_count + (IF replaying = i THEN 1 ELSE 0)
                       <= Cardinality(Q!Copies(i))
Replays ==
  /\ \A o \in 1..Len(log) : log[o].from <= Len(store)
  /\ \A i \in 1..Len(store) : Balanced(i)

LEMMA CopiesFinite ==
  ASSUME log \in Seq(Q!Message), NEW i \in Nat
  PROVE  IsFiniteSet(Q!Copies(i)) /\ Cardinality(Q!Copies(i)) \in Nat
<1>1. Q!Copies(i) \subseteq 1..Len(log)
  BY DEF Q!Copies
<1>2. IsFiniteSet(1..Len(log))
  BY FS_Interval
<1>. QED  BY <1>1, <1>2, FS_Subset, FS_CardinalityType

LEMMA CopiesAppended ==
  ASSUME log \in Seq(Q!Message), NEW m \in Q!Message, log' = Append(log, m), NEW i \in Nat
  PROVE  /\ m.from # i => Q!Copies(i)' = Q!Copies(i)
         /\ m.from = i => Cardinality(Q!Copies(i)') = Cardinality(Q!Copies(i)) + 1
<1>1. /\ Len(log) \in Nat /\ Len(log') = Len(log) + 1 /\ log'[Len(log) + 1] = m
      /\ \A o \in 1..Len(log) : log'[o] = log[o]
  OBVIOUS
<1>2. ASSUME m.from # i PROVE Q!Copies(i)' = Q!Copies(i)
  BY <1>1, <1>2 DEF Q!Copies
<1>3. ASSUME m.from = i PROVE Cardinality(Q!Copies(i)') = Cardinality(Q!Copies(i)) + 1
  <2>1. Q!Copies(i)' = Q!Copies(i) \cup {Len(log) + 1} /\ Len(log) + 1 \notin Q!Copies(i)
    BY <1>1, <1>3 DEF Q!Copies
  <2>. QED  BY <2>1, CopiesFinite, FS_AddElement
<1>. QED  BY <1>2, <1>3

(* A step that leaves the topic and the retry counts alone.                *)
LEMMA BalanceKept ==
  ASSUME TypeOK, Replays, log' = log, Len(store') = Len(store),
         \A i \in 1..Len(store) : store'[i].retry_count = store[i].retry_count,
         \/ UNCHANGED replays
         \/ replaying' = 0 /\ (replaying # 0 => interrupted' = interrupted + 1)
            /\ (replaying = 0 => interrupted' = interrupted)
  PROVE  Replays'
<1>1. \A i \in Nat : Q!Copies(i)' = Q!Copies(i)
  BY DEF Q!Copies
<1>2. Len(store) \in Nat /\ interrupted \in Nat /\ replaying \in Nat /\ interrupted' \in Nat
      /\ \A i \in 1..Len(store) : store[i].retry_count \in Nat
  <2>1. store \in Seq(Q!Entry) /\ \A i \in 1..Len(store) : store[i] \in Q!Entry
    BY DEF TypeOK
  <2>. QED  BY <2>1 DEF TypeOK, Q!Entry, replays
<1>3. \A i \in 1..Len(store) : Cardinality(Q!Copies(i)) \in Nat
  BY <1>2, CopiesFinite DEF TypeOK
<1>4. ASSUME NEW i \in 1..Len(store) PROVE Balanced(i)'
  <2>1. /\ Cardinality(Q!Copies(i)) <= store[i].retry_count + Uncounted(i)
        /\ PublishFails \/ store[i].retry_count + (IF replaying = i THEN 1 ELSE 0)
                             <= Cardinality(Q!Copies(i))
    BY DEF Replays, Balanced
  <2>2. /\ Uncounted(i) \in Nat /\ Uncounted(i)' \in Nat
        /\ Uncounted(i) <= Uncounted(i)' /\ (replaying' = i => replaying = i)
    <3>1. i # 0
      BY <1>2
    <3>2. CASE UNCHANGED replays
      BY <1>2, <3>2 DEF Uncounted, replays
    <3>3. CASE replaying' = 0 /\ replaying = 0 /\ interrupted' = interrupted
      BY <1>2, <3>1, <3>3 DEF Uncounted
    <3>4. CASE replaying' = 0 /\ replaying # 0 /\ interrupted' = interrupted + 1
      <4>1. Uncounted(i)' = interrupted + 1
        BY <1>2, <3>1, <3>4 DEF Uncounted
      <4>2. Uncounted(i) \in {interrupted, interrupted + 1}
        BY <1>2 DEF Uncounted
      <4>. QED  BY <1>2, <3>1, <3>4, <4>1, <4>2
    <3>. QED  BY <3>2, <3>3, <3>4
  <2>3. /\ Q!Copies(i)' = Q!Copies(i) /\ store'[i].retry_count = store[i].retry_count
        /\ Cardinality(Q!Copies(i)) \in Nat /\ store[i].retry_count \in Nat
    BY <1>1, <1>2, <1>3
  <2>4. Cardinality(Q!Copies(i)') <= store'[i].retry_count + Uncounted(i)'
    BY <2>1, <2>2, <2>3
  <2>5. PublishFails \/ store'[i].retry_count + (IF replaying' = i THEN 1 ELSE 0)
                             <= Cardinality(Q!Copies(i)')
    BY <2>1, <2>2, <2>3
  <2>. QED  BY <2>4, <2>5 DEF Balanced
<1>. QED  BY <1>4 DEF Replays

LEMMA StepReplays == TypeOK /\ Replays /\ [Next]_vars => Replays'
<1>. SUFFICES ASSUME TypeOK, Replays, [Next]_vars PROVE Replays'
  OBVIOUS
<1>0. /\ log \in Seq(Q!Message) /\ store \in Seq(Q!Entry) /\ Len(log) \in Nat /\ Len(store) \in Nat
      /\ interrupted \in Nat /\ replaying \in 0..Len(store)
      /\ \A o \in 1..Len(log) : log[o].from \in Nat
      /\ \A i \in 1..Len(store) : /\ store[i].retry_count \in Nat /\ store[i].message \in Q!Message
                                   /\ store[i] \in Q!Entry
                                   /\ Cardinality(Q!Copies(i)) \in Nat
  <2>1. log \in Seq(Q!Message) /\ store \in Seq(Q!Entry) /\ interrupted \in 0..faults
        /\ replaying \in 0..Len(store) /\ faults \in Nat
    BY FaultsBounded DEF TypeOK
  <2>2. \A o \in 1..Len(log) : log[o] \in Q!Message
    BY <2>1
  <2>3. \A i \in 1..Len(store) : store[i] \in Q!Entry
    BY <2>1
  <2>4. \A i \in 1..Len(store) : Cardinality(Q!Copies(i)) \in Nat
    BY <2>1, CopiesFinite
  <2>. QED  BY <2>1, <2>2, <2>3, <2>4 DEF Q!Message, Q!Entry
<1>1. CASE UNCHANGED <<log, store, replays>>
  BY <1>1, BalanceKept
<1>2. ASSUME NEW kind \in Kinds, Publish(kind) PROVE Replays'
  <2>. DEFINE m == [kind |-> kind, from |-> 0]
  <2>1. m \in Q!Message /\ m.from = 0 /\ log' = Append(log, m) /\ store' = store
        /\ replaying' = replaying /\ interrupted' = interrupted
    BY <1>2 DEF Publish, Q!Message, replays
  <2>. HIDE DEF m
  <2>2. \A o \in 1..Len(log') : log'[o].from <= Len(store')
    BY <1>0, <2>1 DEF Replays
  <2>3. \A i \in 1..Len(store) : Q!Copies(i)' = Q!Copies(i)
    BY <1>0, <2>1, CopiesAppended
  <2>. QED  BY <2>1, <2>2, <2>3 DEF Replays, Balanced, Uncounted
<1>3. CASE Dispatch
  <2>1. log' = log /\ replaying' = replaying /\ interrupted' = interrupted
    BY <1>3 DEF Dispatch, replays
  <2>2. CASE store' = store
    BY <1>1, <2>1, <2>2 DEF replays
  <2>3. ASSUME NEW message, Q!RecordFailure(message) PROVE Replays'
    <3>. DEFINE entry == [message |-> message, status |-> "quarantined", retry_count |-> 0]
    <3>1. store' = Append(store, entry) /\ entry.retry_count = 0
      BY <2>3 DEF Q!RecordFailure
    <3>. HIDE DEF entry
    <3>2. /\ Len(store') = Len(store) + 1 /\ store'[Len(store) + 1] = entry
          /\ \A i \in 1..Len(store) : store'[i] = store[i]
      BY <1>0, <3>1
    <3>3. Q!Copies(Len(store) + 1) = {}
      BY <1>0 DEF Replays, Q!Copies
    <3>4. Cardinality({}) = 0
      BY FS_EmptySet
    <3>5. \A i \in 1..Len(store') : Q!Copies(i)' = Q!Copies(i)
      BY <2>1 DEF Q!Copies
    <3>6. ASSUME NEW i \in 1..Len(store') PROVE Balanced(i)'
      <4>1. CASE i = Len(store) + 1
        <5>1. replaying # i /\ store'[i].retry_count = 0 /\ Cardinality(Q!Copies(i)') = 0
          <6>1. replaying # i
            BY <1>0, <4>1
          <6>2. store'[i].retry_count = 0
            BY <3>1, <3>2, <4>1
          <6>3. Q!Copies(i)' = {}
            BY <3>2, <3>3, <3>5, <4>1, <1>0
          <6>. QED  BY <3>4, <6>1, <6>2, <6>3
        <5>. QED  BY <1>0, <2>1, <5>1 DEF Balanced, Uncounted
      <4>2. CASE i # Len(store) + 1
        <5>1. i \in 1..Len(store) /\ store'[i] = store[i]
          BY <1>0, <3>2, <4>2
        <5>. QED  BY <2>1, <3>5, <5>1 DEF Replays, Balanced, Uncounted
      <4>. QED  BY <4>1, <4>2
    <3>7. \A o \in 1..Len(log') : log'[o].from <= Len(store')
      BY <1>0, <2>1, <3>2 DEF Replays
    <3>. QED  BY <3>6, <3>7 DEF Replays
  <2>. QED  BY <1>3, <2>2, <2>3 DEF Dispatch
<1>4. ASSUME NEW i \in 1..Len(store), Q!Discard(i) PROVE Replays'
  <2>1. log' = log /\ UNCHANGED replays /\ store' = [store EXCEPT ![i].status = "discarded"]
    BY <1>4 DEF Q!Discard, replays
  <2>2. /\ Len(store') = Len(store)
        /\ \A j \in 1..Len(store) : store'[j] = IF j = i THEN [store[i] EXCEPT !.status = "discarded"]
                                                   ELSE store[j]
    BY <1>0, <2>1
  <2>3. [store[i] EXCEPT !.status = "discarded"].retry_count = store[i].retry_count
    BY <1>0 DEF Q!Entry
  <2>. QED  BY <2>1, <2>2, <2>3, BalanceKept
<1>5. ASSUME NEW i \in 1..Len(store), Q!Replay(i) PROVE Replays'
  <2>0. PICK m : m = [store[i].message EXCEPT !.from = i]
    OBVIOUS
  <2>1. m \in Q!Message /\ m.from = i /\ i \in Nat \ {0}
    BY <1>0, <2>0, Readdressed DEF Q!Message
  <2>2. /\ replaying = 0 /\ replaying' = i /\ store' = store /\ interrupted' = interrupted
        /\ log' = Append(log, m) \/ (PublishFails /\ log' = log)
    BY <1>5, <2>0 DEF Q!Replay, Q!Republish
  <2>3. \A o \in 1..Len(log') : log'[o].from <= Len(store)
    <3>1. CASE log' = Append(log, m)
      <4>1. Len(log') = Len(log) + 1 /\ log'[Len(log) + 1] = m
            /\ \A o \in 1..Len(log) : log'[o] = log[o]
        BY <1>0, <2>1, <3>1
      <4>2. /\ i \in Nat /\ i <= Len(store) /\ Len(log) \in Nat
            /\ \A o \in 1..Len(log) : log[o].from <= Len(store)
        BY <1>0, <2>1 DEF Replays
      <4>3. ASSUME NEW o \in 1..Len(log') PROVE log'[o].from <= Len(store)
        <5>1. CASE o = Len(log) + 1
          BY <2>1, <4>1, <4>2, <5>1
        <5>2. CASE o # Len(log) + 1
          <6>1. o \in 1..Len(log)
            BY <4>1, <4>2, <5>2
          <6>. QED  BY <4>1, <4>2, <6>1
        <5>. QED  BY <5>1, <5>2
      <4>. QED  BY <4>3
    <3>2. CASE log' = log
      BY <3>2 DEF Replays
    <3>. QED  BY <2>2, <3>1, <3>2
  <2>4. ASSUME NEW j \in 1..Len(store)
        PROVE  /\ j # i => Q!Copies(j)' = Q!Copies(j)
               /\ j = i => \/ Cardinality(Q!Copies(j)') = Cardinality(Q!Copies(j)) + 1
                           \/ PublishFails /\ Q!Copies(j)' = Q!Copies(j)
    <3>1. CASE log' = Append(log, m)
      BY <1>0, <2>1, <3>1, CopiesAppended
    <3>2. CASE PublishFails /\ log' = log
      BY <3>2 DEF Q!Copies
    <3>. QED  BY <2>2, <3>1, <3>2
  <2>5. ASSUME NEW j \in 1..Len(store) PROVE Balanced(j)'
    <3>1. j # 0 /\ Balanced(j)
      BY DEF Replays
    <3>2. CASE j # i
      BY <1>0, <2>2, <2>4, <3>1, <3>2 DEF Balanced, Uncounted
    <3>3. CASE j = i
      <4>1. /\ Cardinality(Q!Copies(i)) <= store[i].retry_count + interrupted
            /\ PublishFails \/ store[i].retry_count <= Cardinality(Q!Copies(i))
        BY <1>0, <2>2, <3>1, <3>3 DEF Balanced, Uncounted
      <4>2. Uncounted(i)' = interrupted + 1
        BY <2>2 DEF Uncounted
      <4>3. \/ Cardinality(Q!Copies(i)') = Cardinality(Q!Copies(i)) + 1
            \/ PublishFails /\ Cardinality(Q!Copies(i)') = Cardinality(Q!Copies(i))
        BY <2>4, <3>3
      <4>4. store'[i].retry_count = store[i].retry_count /\ replaying' = i
        BY <2>2
      <4>5. Cardinality(Q!Copies(i)) \in Nat /\ store[i].retry_count \in Nat /\ interrupted \in Nat
        BY <1>0
      <4>6. Cardinality(Q!Copies(i)') <= store'[i].retry_count + Uncounted(i)'
        BY <4>1, <4>2, <4>3, <4>4, <4>5
      <4>7. PublishFails \/ store'[i].retry_count + (IF replaying' = i THEN 1 ELSE 0)
                               <= Cardinality(Q!Copies(i)')
        BY <4>1, <4>3, <4>4, <4>5
      <4>. QED  BY <3>3, <4>6, <4>7 DEF Balanced
    <3>. QED  BY <3>2, <3>3
  <2>. QED  BY <2>2, <2>3, <2>5 DEF Replays
<1>6. CASE Q!Mark
  <2>0. PICK i, entry : i = replaying /\ entry = Q!Replayed(store[i])
    OBVIOUS
  <2>1. i \in 1..Len(store) /\ store' = [store EXCEPT ![i] = entry] /\ replaying' = 0
        /\ interrupted' = interrupted /\ log' = log
    BY <1>0, <1>6, <2>0 DEF Q!Mark
  <2>2. entry.retry_count = store[i].retry_count + 1
    BY <1>0, <2>0, <2>1 DEF Q!Replayed, Q!Entry
  <2>3. Len(store') = Len(store)
        /\ \A j \in 1..Len(store) : store'[j] = IF j = i THEN entry ELSE store[j]
    BY <1>0, <2>1
  <2>4. ASSUME NEW j \in 1..Len(store) PROVE Balanced(j)'
    <3>1. j # 0 /\ Balanced(j) /\ Q!Copies(j)' = Q!Copies(j)
      BY <2>1 DEF Replays, Q!Copies
    <3>2. CASE j # i
      BY <1>0, <2>0, <2>1, <2>3, <3>1, <3>2 DEF Balanced, Uncounted
    <3>3. CASE j = i
      BY <1>0, <2>0, <2>1, <2>2, <2>3, <3>1, <3>3 DEF Balanced, Uncounted
    <3>. QED  BY <3>2, <3>3
  <2>. QED  BY <2>1, <2>3, <2>4 DEF Replays
<1>7. CASE Crash \/ UpdateFails
  <2>1. Q!Interrupt
    BY <1>7 DEF Crash, UpdateFails
  <2>2. log' = log /\ store' = store /\ replaying' = 0
        /\ (replaying # 0 => interrupted' = interrupted + 1)
        /\ (replaying = 0 => interrupted' = interrupted)
    BY <1>0, <2>1 DEF Q!Interrupt
  <2>. QED  BY <2>2, BalanceKept
<1>8. CASE Start \/ Consume \/ CommitBatch \/ Close \/ Rejoin
           \/ AutoCommit \/ Stop \/ Evict \/ UNCHANGED vars
  BY <1>1, <1>8 DEF Start, Consume, CommitBatch, Close, Rejoin, AutoCommit, Stop, Evict, vars
<1>. QED  BY <1>2, <1>3, <1>4, <1>5, <1>6, <1>7, <1>8 DEF Next, Loop, Operate

(* The topic never carries more copies of a quarantined message than its   *)
(* entry counts replays, but for the one being replayed and one for each   *)
(* replay that a crash or a refused update cut short, and no fewer when no *)
(* publication fails, however often it is replayed, discarded, quarantined *)
(* again and redelivered.                                                  *)
THEOREM ReplaysAreCounted == Spec => []ReplayMeansPublished
<1>1. Init => Replays
  BY DEF Init, Replays
<1>2. TypeOK /\ Replays => ReplayMeansPublished
  <2>. SUFFICES ASSUME TypeOK, Replays, NEW i \in 1..Len(store)
                PROVE /\ Cardinality(Q!Copies(i)) <=
                           store[i].retry_count + interrupted + (IF replaying = i THEN 1 ELSE 0)
                      /\ PublishFails \/ store[i].retry_count <= Cardinality(Q!Copies(i))
    BY DEF ReplayMeansPublished
  <2>1. store[i] \in Q!Entry /\ i \in Nat /\ interrupted \in Nat
    BY DEF TypeOK
  <2>2. store[i].retry_count \in Nat /\ Cardinality(Q!Copies(i)) \in Nat
    BY <2>1, CopiesFinite DEF Q!Entry, TypeOK
  <2>. QED  BY <2>1, <2>2 DEF Replays, Balanced, Uncounted
<1>. QED  BY <1>1, <1>2, TypeCorrect, StepReplays, PTL DEF Spec

-----------------------------------------------------------------------------
(* Redelivery *)

(* How often a message was disposed of, and how often it is yet to be if   *)
(* no more faults come: from the batch, and from where the consumer will   *)
(* go on to fetch.                                                         *)
Places(o) == {i \in 1..Len(disposed) : disposed[i].offset = o}
Onwards == IF evicted \/ phase = "down" THEN committed ELSE position
Due(o) == (IF o \in Elements(batch) THEN 1 ELSE 0) + (IF o > Onwards THEN 1 ELSE 0)
Rising == \A i, j \in 1..Len(batch) : i < j => batch[i] < batch[j]
Bounded ==
  Rising /\ \A o \in Nat \ {0} : Cardinality(Places(o)) + Due(o) <= 1 + faults

LEMMA PlacesFinite ==
  ASSUME TypeOK, NEW o
  PROVE  IsFiniteSet(Places(o)) /\ Cardinality(Places(o)) \in Nat
<1>1. Places(o) \subseteq 1..Len(disposed) /\ Len(disposed) \in Nat
  BY DEF Places, TypeOK
<1>2. IsFiniteSet(1..Len(disposed))
  BY <1>1, FS_Interval
<1>. QED  BY <1>1, <1>2, FS_Subset, FS_CardinalityType

LEMMA PlacesAppended ==
  ASSUME TypeOK, NEW entry, disposed' = Append(disposed, entry), NEW o
  PROVE  /\ entry.offset # o => Places(o)' = Places(o)
         /\ entry.offset = o => Cardinality(Places(o)') = Cardinality(Places(o)) + 1
<1>1. /\ Len(disposed) \in Nat /\ Len(disposed') = Len(disposed) + 1
      /\ disposed'[Len(disposed) + 1] = entry
      /\ \A i \in 1..Len(disposed) : disposed'[i] = disposed[i]
  BY DEF TypeOK
<1>2. ASSUME entry.offset # o PROVE Places(o)' = Places(o)
  BY <1>1, <1>2 DEF Places
<1>3. ASSUME entry.offset = o PROVE Cardinality(Places(o)') = Cardinality(Places(o)) + 1
  <2>1. Places(o)' = Places(o) \cup {Len(disposed) + 1} /\ Len(disposed) + 1 \notin Places(o)
    BY <1>1, <1>3 DEF Places
  <2>. QED  BY <2>1, PlacesFinite, FS_AddElement
<1>. QED  BY <1>2, <1>3

(* The head of a rising batch is not in its rest, which rises too.         *)
LEMMA HeadOnce ==
  ASSUME TypeOK, Rising, batch # <<>>
  PROVE  /\ Head(batch) \notin Elements(Tail(batch))
         /\ \A i, j \in 1..Len(Tail(batch)) : i < j => Tail(batch)[i] < Tail(batch)[j]
<1>1. /\ Head(batch) = batch[1] /\ Len(batch) \in Nat \ {0} /\ Len(Tail(batch)) = Len(batch) - 1
      /\ \A i \in 1..Len(Tail(batch)) : Tail(batch)[i] = batch[i + 1]
      /\ \A i \in 1..Len(batch) : batch[i] \in Nat
  BY DEF TypeOK
<1>2. \A i \in 1..Len(Tail(batch)) : i + 1 \in 1..Len(batch) /\ 1 < i + 1 /\ 1 \in 1..Len(batch)
  BY <1>1
<1>3. \A i \in 1..Len(Tail(batch)) : Tail(batch)[i] # Head(batch)
  BY <1>1, <1>2 DEF Rising
<1>4. \A i, j \in 1..Len(Tail(batch)) : i < j => Tail(batch)[i] < Tail(batch)[j]
  <2>. SUFFICES ASSUME NEW i \in 1..Len(Tail(batch)), NEW j \in 1..Len(Tail(batch)), i < j
                PROVE  Tail(batch)[i] < Tail(batch)[j]
    OBVIOUS
  <2>1. i + 1 \in 1..Len(batch) /\ j + 1 \in 1..Len(batch) /\ i + 1 < j + 1
    BY <1>1
  <2>2. batch[i + 1] < batch[j + 1]
    BY <2>1 DEF Rising
  <2>. QED  BY <1>1, <2>2
<1>. QED  BY <1>3, <1>4 DEF Elements

LEMMA FetchDue ==
  ASSUME TypeOK, Covered, Rising, Consume
  PROVE  Rising' /\ \A o \in Nat \ {0} : Due(o)' <= Due(o)
<1>1. PICK n \in 1..BatchSize : /\ position + n <= Len(log)
                                /\ batch' = [i \in 1..n |-> position + i]
                                /\ position' = position + n
  BY DEF Consume
<1>2. /\ n \in Nat \ {0} /\ position \in Nat /\ position' \in Nat /\ Len(batch') = n
      /\ \A i \in 1..n : batch'[i] = position + i
  BY <1>1, ConsumerAssumption DEF ConsumerAssumption, TypeOK
<1>3. batch = <<>> /\ Elements(batch) = {} /\ Onwards = position /\ Onwards' = position'
  BY NothingElements DEF Consume, Covered, Onwards
<1>4. Rising'
  BY <1>2 DEF Rising
<1>5. ASSUME NEW o \in Nat \ {0} PROVE Due(o)' <= Due(o)
  <2>1. Due(o) = IF o > position THEN 1 ELSE 0
    BY <1>2, <1>3 DEF Due
  <2>2. Due(o)' = (IF o \in Elements(batch') THEN 1 ELSE 0) + (IF o > position' THEN 1 ELSE 0)
    BY <1>3 DEF Due
  <2>3. o \in Elements(batch') => o > position /\ ~(o > position')
    BY <1>1, <1>2 DEF Elements
  <2>4. o > position' => o > position
    BY <1>1, <1>2
  <2>. QED  BY <2>1, <2>2, <2>3, <2>4
<1>. QED  BY <1>4, <1>5

LEMMA StepBounded == TypeOK /\ Covered /\ Bounded /\ [Next]_vars => Bounded'
<1>. SUFFICES ASSUME TypeOK, Covered, Bounded, [Next]_vars PROVE Bounded'
  OBVIOUS
<1>0. /\ committed \in Nat /\ position \in Nat /\ faults \in Nat
      /\ \A o \in Nat \ {0} : Cardinality(Places(o)) \in Nat
  BY PlacesFinite DEF TypeOK
(* Nothing disposed of.                                                    *)
<1>1. ASSUME disposed' = disposed, faults' \in Nat, Rising',
             \A o \in Nat \ {0} : Due(o)' + faults <= Due(o) + faults'
      PROVE  Bounded'
  <2>1. \A o \in Nat \ {0} : Places(o)' = Places(o)
    BY <1>1 DEF Places
  <2>2. \A o \in Nat \ {0} : Due(o) \in Nat /\ Due(o)' \in Nat
    BY DEF Due
  <2>. QED  BY <1>0, <1>1, <2>1, <2>2 DEF Bounded
<1>2. ASSUME UNCHANGED <<disposed, batch, faults>>, Onwards' = Onwards PROVE Bounded'
  <2>1. Rising' /\ \A o \in Nat \ {0} : Due(o)' = Due(o) /\ Due(o) \in Nat
    BY <1>2 DEF Bounded, Rising, Due
  <2>. QED  BY <1>0, <1>1, <1>2, <2>1
<1>3. CASE \/ \E kind \in Kinds : Publish(kind)
           \/ Operate \/ AutoCommit \/ UNCHANGED vars
  <2>1. CASE AutoCommit
    BY <1>2, <2>1 DEF AutoCommit, Onwards
  <2>2. CASE (\E kind \in Kinds : Publish(kind)) \/ Operate \/ UNCHANGED vars
    <3>1. UNCHANGED consumer
      BY <2>2 DEF Publish, Operate, consumer, vars
    <3>. QED  BY <1>2, <3>1 DEF consumer, Onwards
  <2>. QED  BY <1>3, <2>1, <2>2
<1>4. CASE Start \/ CommitBatch \/ Close \/ Rejoin
  BY <1>2, <1>4 DEF Start, CommitBatch, Close, Rejoin, ResumeAt, Onwards
<1>5. CASE Consume
  <2>1. Rising' /\ (\A o \in Nat \ {0} : Due(o)' <= Due(o)) /\ UNCHANGED <<disposed, faults>>
    BY <1>5, FetchDue DEF Bounded, Consume
  <2>2. \A o \in Nat \ {0} : Due(o) \in Nat /\ Due(o)' \in Nat
    BY DEF Due
  <2>. QED  BY <1>0, <1>1, <2>1, <2>2
<1>6. CASE Stop \/ Evict \/ UpdateFails
  <2>1. UNCHANGED <<disposed, batch>> /\ faults' = faults + 1
    BY <1>6 DEF Stop, Evict, UpdateFails
  <2>2. Rising'
    BY <2>1 DEF Bounded, Rising
  <2>3. \A o \in Nat \ {0} : Due(o)' <= Due(o) + 1 /\ Due(o) \in Nat /\ Due(o)' \in Nat
    BY <2>1 DEF Due
  <2>. QED  BY <1>0, <1>1, <2>1, <2>2, <2>3
<1>7. CASE Crash
  <2>1. UNCHANGED disposed /\ batch' = <<>> /\ faults' = faults + 1
    BY <1>7 DEF Crash
  <2>2. Rising' /\ Elements(batch') = {}
    BY <2>1, NothingElements DEF Rising
  <2>3. \A o \in Nat \ {0} : Due(o)' <= Due(o) + 1 /\ Due(o) \in Nat /\ Due(o)' \in Nat
    BY <2>2 DEF Due
  <2>. QED  BY <1>0, <1>1, <2>1, <2>2, <2>3
<1>8. CASE Dispatch
  <2>1. /\ Head(batch) \in 1..Len(log) /\ batch # <<>>
        /\ \E outcome : disposed' = Append(disposed, [offset |-> Head(batch), outcome |-> outcome])
    BY <1>8, ConsumerAssumption, DispatchTyped
  <2>2. PICK entry, head : /\ disposed' = Append(disposed, entry) /\ entry.offset = head
                           /\ head = Head(batch)
    BY <2>1
  <2>3. Elements(batch) = {head} \cup Elements(Tail(batch)) /\ head \notin Elements(Tail(batch))
        /\ \A i, j \in 1..Len(Tail(batch)) : i < j => Tail(batch)[i] < Tail(batch)[j]
    BY <2>1, <2>2, HeadAndTail, HeadOnce DEF TypeOK, Bounded
  <2>4. batch' = Tail(batch) \/ batch' = <<>>
    BY <1>8 DEF Dispatch, Rest
  <2>5. Rising' /\ Elements(batch') \subseteq Elements(batch) \ {head}
    <3>1. CASE batch' = Tail(batch)
      BY <2>3, <3>1 DEF Rising, Elements
    <3>2. CASE batch' = <<>>
      BY <3>2, NothingElements DEF Rising
    <3>. QED  BY <2>4, <3>1, <3>2
  <2>6. Onwards' = Onwards /\ faults' = faults
    BY <1>8 DEF Dispatch, Onwards
  <2>7. ASSUME NEW o \in Nat \ {0} PROVE Cardinality(Places(o)') + Due(o)' <= 1 + faults'
    <3>1. Cardinality(Places(o)) + Due(o) <= 1 + faults /\ Cardinality(Places(o)) \in Nat
      BY <1>0 DEF Bounded
    <3>2. Due(o) \in Nat /\ Due(o)' \in Nat
      BY DEF Due
    <3>3. CASE o = head
      <4>1. Cardinality(Places(o)') = Cardinality(Places(o)) + 1
        BY <2>2, <3>3, PlacesAppended
      <4>2. Due(o)' = Due(o) - 1
        BY <2>3, <2>5, <2>6, <3>3 DEF Due
      <4>. QED  BY <1>0, <2>6, <3>1, <3>2, <4>1, <4>2
    <3>4. CASE o # head
      <4>1. Places(o)' = Places(o)
        BY <2>2, <3>4, PlacesAppended
      <4>2. Due(o)' <= Due(o)
        BY <2>5, <2>6 DEF Due
      <4>. QED  BY <1>0, <2>6, <3>1, <3>2, <4>1, <4>2
    <3>. QED  BY <3>3, <3>4
  <2>. QED  BY <2>5, <2>7 DEF Bounded
<1>. QED  BY <1>3, <1>4, <1>5, <1>6, <1>7, <1>8 DEF Next, Loop

(* A message comes back only after a fault, and once per fault, whatever   *)
(* had been fetched, dispatched and committed when it struck.              *)
THEOREM RedeliveriesAreBounded == Spec => []RedeliveryBounded
<1>1. Init => Covered /\ Bounded
  <2>. SUFFICES ASSUME Init PROVE Covered /\ Bounded
    OBVIOUS
  <2>1. \A o \in Nat \ {0} : Places(o) = {} /\ Due(o) = 1
    BY NothingElements DEF Init, Places, Due, Onwards
  <2>2. Cardinality({}) = 0
    BY FS_EmptySet
  <2>3. Covered /\ Rising
    BY DEF Init, Covered, Accounted, Rising
  <2>4. \A o \in Nat \ {0} : Cardinality(Places(o)) + Due(o) <= 1 + faults
    <3>1. faults = 0 /\ \A o \in Nat \ {0} : Cardinality(Places(o)) = 0 /\ Due(o) = 1
      BY <2>1, <2>2 DEF Init
    <3>. QED  BY <3>1
  <2>. QED  BY <2>3, <2>4 DEF Bounded
<1>2. TypeOK /\ Bounded => RedeliveryBounded
  <2>. SUFFICES ASSUME TypeOK, Bounded, NEW o \in 1..Len(log)
                PROVE Cardinality(Places(o)) <= 1 + faults
    BY DEF RedeliveryBounded, Places
  <2>1. o \in Nat \ {0} /\ Due(o) \in Nat /\ faults \in Nat /\ Cardinality(Places(o)) \in Nat
    BY PlacesFinite DEF Due, TypeOK
  <2>2. Cardinality(Places(o)) + Due(o) <= 1 + faults
    BY <2>1 DEF Bounded
  <2>. QED  BY <2>1, <2>2
<1>. QED  BY <1>1, <1>2, TypeCorrect, StepCovered, StepBounded, PTL DEF Spec
=============================================================================

------------------------------ MODULE Quarantine ------------------------------
(***************************************************************************)
(* QuarantineManager (kafka/quarantine.py): the SQLite table of messages   *)
(* the consumer could not process, and the two endpoints by which an       *)
(* operator puts them back on the ingest.raw topic or discards them.       *)
(*                                                                         *)
(* The endpoints are `async def` and never await, so they exclude each     *)
(* other, and a shutdown; the poll thread runs beside them, and its        *)
(* record_failure only inserts.  A replay publishes to Kafka and then      *)
(* updates SQLite: it is two steps here, between which the poll loop may   *)
(* consume the copy and the process may die.  The client delivers what it  *)
(* is handed within milliseconds: a copy is put on the topic when it is    *)
(* handed over, and one that the client loses is a failed publication.     *)
(* The copy on the dead-letter topic has no reader and is left out.        *)
(***************************************************************************)
EXTENDS Naturals, Sequences

CONSTANTS
  Kinds,        \* kinds of message, see IngestConsumer
  MaxLog,       \* bound on the length of the topic
  MaxReplays,   \* bound on the replays of one entry
  PublishFails  \* TRUE when a publication may be given up or lost (it is logged)

VARIABLES
  log,        \* the topic ingest.raw
  store,      \* the table quarantined_messages, in insertion order
  replaying,  \* the entry published but not yet marked replayed, 0 if none
  interrupted \* history: how many replays ended before they were marked

\* `from` is the quarantine entry a message was replayed from, 0 if none.
Message == [kind : Kinds, from : Nat]
Entry == [message : Message, status : {"quarantined", "replayed", "discarded"},
          retry_count : Nat]

(* record_failure: a new entry, with a retry count of zero even when the   *)
(* message had been replayed before.                                       *)
RecordFailure(message) ==
  store' = Append(store, [message |-> message, status |-> "quarantined",
                          retry_count |-> 0])

BugReplayed(entry) == [entry EXCEPT !.status = "replayed"]
Replayed(entry) ==
  [entry EXCEPT !.status = "replayed", !.retry_count = @ + 1]

Republish(i) == log' = Append(log, [store[i].message EXCEPT !.from = i])

(* replay_messages, one id: publish the payload again, whatever the status *)
(* of its entry ...                                                        *)
Replay(i) ==
  /\ replaying = 0
  /\ i \in 1..Len(store)
  /\ Len(log) < MaxLog
  /\ store[i].retry_count < MaxReplays
  /\ \/ Republish(i)
     \/ PublishFails /\ UNCHANGED log
  /\ replaying' = i
  /\ UNCHANGED <<store, interrupted>>

(* ... and then mark the entry replayed, whether or not the publication    *)
(* succeeded.                                                              *)
Mark ==
  /\ replaying # 0
  /\ store' = [store EXCEPT ![replaying] = Replayed(@)]
  /\ replaying' = 0
  /\ UNCHANGED <<log, interrupted>>

(* The process dies, or the update is refused (the request fails).         *)
Interrupt ==
  /\ interrupted' = interrupted + (IF replaying = 0 THEN 0 ELSE 1)
  /\ replaying' = 0
  /\ UNCHANGED <<log, store>>

(* discard_messages, one id. *)
Discard(i) ==
  /\ replaying = 0
  /\ i \in 1..Len(store)
  /\ store[i].status # "discarded"
  /\ store' = [store EXCEPT ![i].status = "discarded"]
  /\ UNCHANGED <<log, replaying, interrupted>>

Copies(i) == {o \in 1..Len(log) : log[o].from = i}
=============================================================================

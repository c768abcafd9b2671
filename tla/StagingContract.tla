--------------------------- MODULE StagingContract ----------------------------
(***************************************************************************)
(* What a cleaning run owes the staging table and the topic ingest.valid:  *)
(* the batch is inserted once, announced once and only after that, and the *)
(* run completes only when both are done.                                  *)
(***************************************************************************)
EXTENDS Naturals

CONSTANT Runs

VARIABLES
  inserted,  \* how often the batch of a run was inserted
  announced, \* how often it was announced
  completed  \* the runs that completed

vars == <<inserted, announced, completed>>

Init ==
  /\ inserted = [r \in Runs |-> 0]
  /\ announced = [r \in Runs |-> 0]
  /\ completed = {}

Insert(r) ==
  /\ inserted[r] = 0
  /\ inserted' = [inserted EXCEPT ![r] = 1]
  /\ UNCHANGED <<announced, completed>>

Announce(r) ==
  /\ inserted[r] = 1 /\ announced[r] = 0
  /\ announced' = [announced EXCEPT ![r] = 1]
  /\ UNCHANGED <<inserted, completed>>

Complete(r) ==
  /\ announced[r] = 1
  /\ completed' = completed \cup {r}
  /\ UNCHANGED <<inserted, announced>>

Next == \E r \in Runs : Insert(r) \/ Announce(r) \/ Complete(r)

Spec == Init /\ [][Next]_vars
=============================================================================

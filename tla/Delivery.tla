------------------------------- MODULE Delivery -------------------------------
(***************************************************************************)
(* What the consumer of ingest.raw owes its topic: each message is         *)
(* disposed of once, in the order of the log, and ends up either handled   *)
(* or in quarantine.                                                       *)
(***************************************************************************)
EXTENDS Naturals, Sequences

CONSTANT Messages

VARIABLES
  log,      \* the messages of the topic
  disposed  \* what was done, in the order it was done

vars == <<log, disposed>>

Init == log = <<>> /\ disposed = <<>>

Publish(m) == log' = Append(log, m) /\ UNCHANGED disposed

Dispose(outcome) ==
  /\ Len(disposed) < Len(log)
  /\ disposed' = Append(disposed, [offset |-> Len(disposed) + 1,
                                   outcome |-> outcome])
  /\ UNCHANGED log

Next ==
  \/ \E m \in Messages : Publish(m)
  \/ \E outcome \in {"handled", "quarantined"} : Dispose(outcome)

Spec ==
  /\ Init
  /\ [][Next]_vars
  /\ WF_vars(\E outcome \in {"handled", "quarantined"} : Dispose(outcome))
=============================================================================

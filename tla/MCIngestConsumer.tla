--------------------------- MODULE MCIngestConsumer ---------------------------
(* Small instances of IngestConsumer: a topic of a few messages of each    *)
(* kind, batches of up to two.                                             *)
EXTENDS IngestConsumer, TLC
=============================================================================

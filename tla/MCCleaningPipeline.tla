-------------------------- MODULE MCCleaningPipeline --------------------------
(* A small instance of CleaningPipeline: r1 is triggered with the key of a *)
(* raw file.                                                               *)
EXTENDS CleaningPipeline, TLC

CONSTANT r1
=============================================================================

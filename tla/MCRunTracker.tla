---------------------------- MODULE MCRunTracker ----------------------------
(* Small instances of RunTracker.  A pipeline of two steps reported over a *)
(* total of one stands for the eight step events (five assets, three       *)
(* checks) of a pipeline registered with a total of five.                  *)
EXTENDS RunTracker, TLC

TwoSteps == <<"raw", "staged">>
OneStep == <<"staged">>
=============================================================================

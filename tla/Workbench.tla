------------------------------- MODULE Workbench -------------------------------
(* The router mounts one page at a time, and pages share nothing but the    *)
(* services behind them.  A behaviour works with one part of the frontend;  *)
(* parts that are not in use stay as they are: nothing is asked of their    *)
(* scheduling and nothing is promised of them.                              *)
VARIABLE inUse       \* the part that the behaviour works with

StaysInUse == inUse' = inUse
=============================================================================

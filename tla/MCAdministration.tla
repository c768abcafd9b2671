---------------------------- MODULE MCAdministration ----------------------------
(* The administration on its own, without the other parts of the frontend.  *)
EXTENDS Administration

AloneInit == inUse = "admin" /\ AdminInit
AloneNext == StaysInUse /\ AdminNext
AloneSpec == AloneInit /\ [][AloneNext]_<<adminVars, inUse>>
=============================================================================

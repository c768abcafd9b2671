-------------------------- MODULE MCEntityResolution --------------------------
(* A small instance of EntityResolution.  In the first world one match     *)
(* joins two pairs of matches; in the second a pair is to be reviewed, and *)
(* two records alike in all but their name have none.                      *)
EXTENDS EntityResolution, TLC

CONSTANT r1

OneKey == [x \in Ids |-> "key"]
Scores(some) == [p \in Pairs |-> IF p \in DOMAIN some THEN some[p] ELSE 69]
MCWorlds ==
  {[key |-> OneKey, traceable |-> TRUE,
    score |-> Scores(<<1, 4>> :> 90 @@ <<2, 3>> :> 95 @@ <<2, 4>> :> 100
                       @@ <<5, 6>> :> 90)],
   [key |-> [OneKey EXCEPT ![3] = Empty, ![4] = Empty], traceable |-> FALSE,
    score |-> Scores(<<1, 2>> :> 70 @@ <<3, 4>> :> 95 @@ <<5, 6>> :> 89)]}
=============================================================================

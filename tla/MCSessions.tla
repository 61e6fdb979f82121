----------------------------- MODULE MCSessions -----------------------------
(***************************************************************************)
(* The requests of a tab's API client, and the page that polls: each with  *)
(* the other at rest, as they share no state.                              *)
(***************************************************************************)
EXTENDS SessionsProperties, PredictionsPage

CONSTANTS t1, t2, l1, l2

MCTabOf == [l \in Lanes |-> IF l \in {l1, l2} THEN t1 ELSE t2]

MCInit == Init /\ PicksInit

OnePartMoves ==
  \/ PicksInit /\ Next /\ UNCHANGED picksVars
  \/ Init /\ PicksNext /\ UNCHANGED vars

MCSpec ==
  /\ MCInit
  /\ [][OnePartMoves]_<<vars, picksVars>>
  /\ Fairness /\ PicksFairness
============================================================================

-------------------------------- MODULE Bet --------------------------------
(***************************************************************************)
(* What the platform promises about its bets, whatever their kind: the     *)
(* stake of a bet is held once while it runs, it gets one verdict, a       *)
(* verdict that pays pays once, and only a cancellation gives the stake    *)
(* back (and only the reversal of that cancellation takes it again).  One  *)
(* step of the platform may move any number of bets, each by one step.     *)
(***************************************************************************)
EXTENDS Integers

CONSTANT Slips   \* the bets

VARIABLES
  phase,  \* the status of each bet
  held,   \* tokens taken for it and not given back
  paid    \* points paid out for it

betVars == <<phase, held, paid>>

Init == \A b \in Slips : phase[b] = "ABSENT" /\ held[b] = 0 /\ paid[b] = 0

Turns(b, from, to) == phase[b] \in from /\ phase'[b] \in to

Place(b) ==
  Turns(b, {"ABSENT"}, {"PENDING"}) /\ held'[b] > 0 /\ paid'[b] = paid[b]

Pay(b) ==
  Turns(b, {"PENDING"}, {"WON", "CASHED_OUT"}) /\ held'[b] = held[b] /\ paid'[b] > 0

Lose(b) ==
  Turns(b, {"PENDING"}, {"LOST"}) /\ held'[b] = held[b] /\ paid'[b] = paid[b]

Refund(b) ==
  Turns(b, {"PENDING"}, {"REFUNDED"}) /\ held'[b] = 0 /\ paid'[b] = paid[b]

Reinstate(b) ==
  Turns(b, {"REFUNDED"}, {"PENDING"}) /\ held'[b] > 0 /\ paid'[b] = paid[b]

\* The row is removed; what was posted to the ledgers stays.
Purge(b) ==
  /\ Turns(b, {"PENDING", "WON", "LOST", "CASHED_OUT", "REFUNDED"}, {"DELETED"})
  /\ held'[b] = held[b] /\ paid'[b] = paid[b]

Rest(b) == phase'[b] = phase[b] /\ held'[b] = held[b] /\ paid'[b] = paid[b]

Step(b) == Place(b) \/ Pay(b) \/ Lose(b) \/ Refund(b) \/ Reinstate(b) \/ Purge(b)

Next == \A b \in Slips : Step(b) \/ Rest(b)

Spec == Init /\ [][Next]_betVars
============================================================================

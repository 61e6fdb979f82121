---------------------------- MODULE Accumulators ---------------------------
(***************************************************************************)
(* Accumulators (services/accumulators.ts): the Accumulator table with its *)
(* legs, and what settleLegsForEvent, cancelLegsForEvent and               *)
(* restoreCancelledLegsForEvent do to it inside the transaction that       *)
(* settles, cancels or uncancels an event.                                 *)
(*                                                                         *)
(* None of the three locks the accumulator or its other legs: they read    *)
(* the row once, decide, and write.  `view` is what they read; a write     *)
(* applies to the row as it is at the commit, guarded by "still PENDING"   *)
(* (updateMany) in settle and cancel and by nothing (update) in restore.   *)
(***************************************************************************)
EXTENDS Predictions

CONSTANTS
  CombinedPayout(_, _),  \* floor(stake * min(product of the legs' odds, MAX_COMBINED_ODDS))
  MaxLegs                \* MAX_LEGS

ASSUME CombinedPayoutAssumption ==
  \A s \in Stakes \cup {0}, S \in SUBSET Events :
    \A odds \in [S -> Prices \cup {0}] : CombinedPayout(s, odds) \in Nat

VARIABLE acca

LegStatus == {"NONE", "PENDING", "WON", "LOST", "REFUNDED", "DELETED"}
Leg == [status : LegStatus, name : Names \cup {None}, price : Prices \cup {0}]

AccaStatus == {"ABSENT", "PENDING", "WON", "LOST", "CANCELLED", "DELETED"}
AccaRow == [status : AccaStatus, user : Users \cup {None}, stake : Stakes \cup {0},
            legs : [Events -> Leg], potential : Nat, payout : Nat]

AccasTypeOK == acca \in [Accas -> AccaRow]

NoLeg == [status |-> "NONE", name |-> None, price |-> 0]
NoAcca == [status |-> "ABSENT", user |-> None, stake |-> 0,
           legs |-> [e \in Events |-> NoLeg], potential |-> 0, payout |-> 0]

\* The events of the legs of row r whose status is one of `statuses`.
LegsIn(r, statuses) == {e \in Events : r.legs[e].status \in statuses}
LiveLegs(r) == LegsIn(r, LegStatus \ {"NONE", "DELETED"})
Odds(r, S) == [e \in S |-> r.legs[e].price]

NewAcca(u, s, legs) ==
  LET S == {e \in Events : legs[e].status = "PENDING"}
  IN  [status |-> "PENDING", user |-> u, stake |-> s, legs |-> legs,
       potential |-> CombinedPayout(s, [e \in S |-> legs[e].price]), payout |-> 0]

AccaOwner == [a \in Accas |-> acca[a].user]

WithLeg(r, e, status) == [r EXCEPT !.legs[e].status = status]

\* The accumulators of which a leg on e had this status in the view.
Affected(view, e, status) == {a \in Accas : view[a].legs[e].status = status}

\* The leg rows on e, moved from one status to another (updateMany on the leg table).
MoveLeg(r, e, from, to) == IF r.legs[e].status = from THEN WithLeg(r, e, to) ELSE r

-----------------------------------------------------------------------------
(* settleLegsForEvent: legs compare normalised spellings. *)

LegVerdict(r, e, n) == IF Norm[r.legs[e].name] = Norm[n] THEN "WON" ELSE "LOST"

\* The verdict on the accumulator once its leg on e is settled.
SettleVerdict(r) ==
  IF r.status # "PENDING" THEN r.status
  ELSE IF LegsIn(r, {"LOST"}) # {} THEN "LOST"
  ELSE IF LegsIn(r, {"PENDING"}) # {} THEN "PENDING"
  ELSE "WON"

SettleDecision(view, a, e, n) ==
  SettleVerdict(WithLeg(view[a], e, LegVerdict(view[a], e, n)))

\* The accumulators that this settlement marks with a verdict: the guarded updates that hit.
MarkedBySettle(view, e, n, verdict) ==
  {a \in Affected(view, e, "PENDING") :
     /\ view[a].status = "PENDING" /\ acca[a].status = "PENDING"
     /\ SettleDecision(view, a, e, n) = verdict}

AccaSettleWins(view, e, n) ==
  [a \in MarkedBySettle(view, e, n, "WON") |-> view[a].potential]

SettledAccas(view, e, n) ==
  [a \in Accas |->
     LET row == MoveLeg(acca[a], e, "PENDING", LegVerdict(acca[a], e, n))
     IN  IF a \in MarkedBySettle(view, e, n, "WON")
         THEN [row EXCEPT !.status = "WON", !.payout = view[a].potential]
         ELSE IF a \in MarkedBySettle(view, e, n, "LOST")
         THEN [row EXCEPT !.status = "LOST", !.payout = 0]
         ELSE row]

-----------------------------------------------------------------------------
(* cancelLegsForEvent *)

\* The legs that still count once the leg on e is refunded.
ActiveAfterCancel(r, e) == LegsIn(r, {"PENDING", "WON", "LOST"}) \ {e}

\* Mutant: an accumulator whose remaining legs have all won is left waiting.
CancelDecisionWaits(r, e) ==
  LET active == ActiveAfterCancel(r, e)
  IN  IF \E f \in active : r.legs[f].status = "LOST" THEN "LOST"
      ELSE IF active = {} THEN "CANCELLED"
      ELSE "PENDING"

CancelDecision(r, e) ==
  LET active == ActiveAfterCancel(r, e)
  IN  IF \E f \in active : r.legs[f].status = "LOST" THEN "LOST"
      ELSE IF active = {} THEN "CANCELLED"
      ELSE IF \A f \in active : r.legs[f].status = "WON" THEN "WON"
      ELSE "PENDING"

MarkedByCancel(view, e, verdict) ==
  {a \in Affected(view, e, "PENDING") :
     /\ view[a].status = "PENDING" /\ acca[a].status = "PENDING"
     /\ CancelDecision(view[a], e) = verdict}

PotentialWithout(r, e) == CombinedPayout(r.stake, Odds(r, ActiveAfterCancel(r, e)))

AccaCancelWins(view, e) ==
  [a \in MarkedByCancel(view, e, "WON") |-> PotentialWithout(view[a], e)]

AccaCancelRefunds(view, e) ==
  [a \in MarkedByCancel(view, e, "CANCELLED") |-> view[a].stake]

CancelledAccas(view, e) ==
  [a \in Accas |->
     LET row == MoveLeg(acca[a], e, "PENDING", "REFUNDED")
         repriced == [row EXCEPT !.potential = PotentialWithout(view[a], e)]
     IN  IF a \in MarkedByCancel(view, e, "LOST")
         THEN [row EXCEPT !.status = "LOST", !.payout = 0]
         ELSE IF a \in MarkedByCancel(view, e, "CANCELLED")
         THEN [row EXCEPT !.status = "CANCELLED", !.payout = 0]
         ELSE IF a \in MarkedByCancel(view, e, "WON")
         THEN [repriced EXCEPT !.status = "WON", !.payout = repriced.potential]
         ELSE IF a \in MarkedByCancel(view, e, "PENDING") THEN repriced
         ELSE row]

-----------------------------------------------------------------------------
(* restoreCancelledLegsForEvent *)

\* An accumulator that the cancellation turned into a win blocks the restoration.
Restorable(view, e) ==
  \A a \in Affected(view, e, "REFUNDED") : view[a].status # "WON"

\* calculateActiveCombinedOdds: the legs not refunded, and the one being restored.
PotentialWith(r, e) ==
  CombinedPayout(r.stake, Odds(r, LegsIn(r, {"PENDING", "WON", "LOST"}) \cup {e}))

\* Mutant: an accumulator that lost on another leg is reopened as well.
ReopenedLosers(view, e) ==
  {a \in Affected(view, e, "REFUNDED") : view[a].status \in {"CANCELLED", "LOST"}}

Reopened(view, e) == {a \in Affected(view, e, "REFUNDED") : view[a].status = "CANCELLED"}
Repriced(view, e) == {a \in Affected(view, e, "REFUNDED") : view[a].status = "PENDING"}

\* Mutant: the refunded stake is not taken again.
AccaRestoreNoStakes(view, e) == NoRows

AccaRestoreStakes(view, e) == [a \in Reopened(view, e) |-> view[a].stake]

RestoredAccas(view, e) ==
  [a \in Accas |->
     LET row == MoveLeg(acca[a], e, "REFUNDED", "PENDING")
     IN  IF a \in Reopened(view, e)
         THEN [row EXCEPT !.status = "PENDING", !.payout = 0,
                          !.potential = PotentialWith(view[a], e)]
         ELSE IF a \in Repriced(view, e)
         THEN [row EXCEPT !.potential = PotentialWith(view[a], e)]
         ELSE row]

-----------------------------------------------------------------------------
(* deleteOldFinishedEvents: the legs of these events go, and with them     *)
(* every accumulator that has no leg left.                                 *)

PurgedAccas(S) ==
  [a \in Accas |->
     LET row == [acca[a] EXCEPT !.legs =
                   [e \in Events |-> IF e \in S /\ @[e].status # "NONE"
                                     THEN [@[e] EXCEPT !.status = "DELETED"] ELSE @[e]]]
     IN  IF acca[a].status \notin {"ABSENT", "DELETED"} /\ LiveLegs(row) = {}
         THEN [row EXCEPT !.status = "DELETED"] ELSE row]
============================================================================

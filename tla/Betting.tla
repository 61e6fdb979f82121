------------------------------ MODULE Betting ------------------------------
(***************************************************************************)
(* Events and everything that is staked on them: services/events.ts and    *)
(* the request handlers of predictions.ts and accumulators.ts, on top of   *)
(* the tables of Predictions, Accumulators and Wallets.                    *)
(*                                                                         *)
(* The Node process interleaves its requests and timers at every await,    *)
(* and PostgreSQL runs their transactions at READ COMMITTED.  A Handler is *)
(* one request or timer run.  What it has read and not yet acted on is in  *)
(* req[h]; its last step is the commit of its transaction.                 *)
(*   - place, cashout, lock, update, accumulator place and the deletion of *)
(*     old events read without a lock first, and write in a later step.    *)
(*   - settle, cancel and uncancel lock the Event row (FOR UPDATE), read   *)
(*     the accumulators without a lock, and commit in a later step.  Every *)
(*     other statement that locks or updates that row waits meanwhile.     *)
(* Prediction and User rows are locked before they are read, so they are   *)
(* taken as of the commit.  Abort stands for every way a request ends      *)
(* without a commit: a failed check, a rolled back transaction, a deadlock *)
(* victim, the transaction timeout, a crash of the process.                *)
(***************************************************************************)
EXTENDS Accumulators

CONSTANTS
  Handlers,        \* requests and timer runs in flight
  OutcomeLists,    \* the outcome lists an administrator may give an event
  Accruals,        \* allowance credits a stake may trigger (TokenAllowanceService)
  Bonuses,         \* streak bonuses a win may trigger (LeaderboardService)
  SignupBonus,     \* SIGNUP_BONUS_TOKENS
  DeleteAge,       \* deleteOldFinishedEvents' threshold, in ticks
  MaxTime,         \* bound: ticks of the clock
  MaxStaked        \* bound: tokens ever staked on one bet (uncancelling stakes again)

ASSUME BettingAssumption ==
  /\ Accruals \subseteq Nat /\ Bonuses \subseteq Nat /\ 0 \in Bonuses
  /\ SignupBonus \in Nat /\ DeleteAge \in Nat /\ MaxTime \in Nat /\ MaxStaked \in Nat
  /\ OutcomeLists \subseteq SUBSET Names
  /\ None \notin Users \cup Events \cup Names

VARIABLES event, req, now

vars == <<event, pred, acca, req, now, walletVars>>

EventStatus == {"ABSENT", "OPEN", "LOCKED", "SETTLED", "CANCELLED", "DELETED"}
EventRow == [status : EventStatus, outcomes : SUBSET Names, kickoff : Nat,
             settledAt : Nat, final : Names \cup {None}]

AccaTable == [Accas -> AccaRow]

Requests ==
       [op : {"idle"}]
  \cup [op : {"place"}, user : Users, event : Events, name : Names, stake : Stakes, price : Prices]
  \cup [op : {"cashout"}, pred : Preds, price : Prices]
  \cup [op : {"lock"}, event : Events]
  \cup [op : {"update"}, event : Events, outcomes : SUBSET Names, kickoff : Nat]
  \cup [op : {"accumulate"}, user : Users, stake : Stakes, legs : [Events -> Leg]]
  \cup [op : {"settle"}, event : Events, outcome : Names, view : AccaTable]
  \cup [op : {"cancel", "uncancel"}, event : Events, view : AccaTable]
  \cup [op : {"delete"}, events : SUBSET Events]

TypeOK ==
  /\ WalletsTypeOK /\ PredsTypeOK /\ AccasTypeOK
  /\ event \in [Events -> EventRow]
  /\ req \in [Handlers -> Requests]
  /\ now \in Nat

-----------------------------------------------------------------------------

Idle == [op |-> "idle"]
Ask(h, r) == req[h] = Idle /\ req' = [req EXCEPT ![h] = r]
Finish(h) == req' = [req EXCEPT ![h] = Idle]

EventExists(e) == event[e].status \notin {"ABSENT", "DELETED"}
Started(e) == event[e].kickoff <= now
Finished(e) == event[e].status \in {"SETTLED", "CANCELLED"}

\* A transaction in flight holds the row lock of event e.
RowLocked(e) == \E h \in Handlers :
  /\ req[h].op \in {"settle", "cancel", "uncancel"} /\ req[h].event = e

Writable(e) == EventExists(e) /\ ~RowLocked(e)

Accepting(e) == event[e].status = "OPEN" /\ ~Started(e)

\* The owner of every bet once the predictions are np and the accumulators na.
Owners(np, na) == [b \in Bets |-> IF b \in Preds THEN np[b].user ELSE na[b].user]
OwnerNow == Owners(pred, acca)

\* Two batches of rows in one.
Both(f, g) == [b \in DOMAIN f \cup DOMAIN g |-> IF b \in DOMAIN f THEN f[b] ELSE g[b]]

Init ==
  /\ event = [e \in Events |-> [status |-> "ABSENT", outcomes |-> {}, kickoff |-> 0,
                                settledAt |-> 0, final |-> None]]
  /\ pred = [p \in Preds |-> NoPred]
  /\ acca = [a \in Accas |-> NoAcca]
  /\ req = [h \in Handlers |-> Idle]
  /\ now = 0
  /\ tokenBalance = [u \in Users |-> SignupBonus]
  /\ granted = [u \in Users |-> SignupBonus]
  /\ pointsBalance = [u \in Users |-> 0]
  /\ tokenLedger = [b \in Bets |-> [stake |-> 0, refund |-> 0]]
  /\ pointsLedger = [b \in Bets |-> [win |-> 0, cashout |-> 0]]

Tick == now < MaxTime /\ now' = now + 1
        /\ UNCHANGED <<event, pred, acca, req, walletVars>>

Abort(h) == req[h] # Idle /\ Finish(h)
            /\ UNCHANGED <<event, pred, acca, now, walletVars>>

-----------------------------------------------------------------------------
(* EventService.create, lock, autoLockStartedEvents, update *)

Create(e, outcomes, kickoff) ==
  /\ event[e].status = "ABSENT"
  /\ kickoff > now
  /\ event' = [event EXCEPT ![e] = [status |-> "OPEN", outcomes |-> outcomes,
                                    kickoff |-> kickoff, settledAt |-> 0, final |-> None]]
  /\ UNCHANGED <<pred, acca, req, now, walletVars>>

ReadForLock(h, e) ==
  /\ event[e].status = "OPEN"
  /\ Ask(h, [op |-> "lock", event |-> e])
  /\ UNCHANGED <<event, pred, acca, now, walletVars>>

\* The update is by id: it does not ask again whether the event is OPEN.
WriteLock(h) ==
  /\ req[h].op = "lock"
  /\ Writable(req[h].event)
  /\ event' = [event EXCEPT ![req[h].event].status = "LOCKED"]
  /\ Finish(h)
  /\ UNCHANGED <<pred, acca, now, walletVars>>

AutoLock ==
  LET due == {e \in Events : event[e].status = "OPEN" /\ Started(e)}
  IN  /\ due # {} /\ \A e \in due : ~RowLocked(e)
      /\ event' = [e \in Events |-> IF e \in due THEN [event[e] EXCEPT !.status = "LOCKED"]
                                    ELSE event[e]]
      /\ UNCHANGED <<pred, acca, req, now, walletVars>>

SameOutcomeSet(S, T) == {Norm[n] : n \in S} = {Norm[n] : n \in T}

\* The outcomes may change freely until the event has a Prediction row.
MayReplaceOutcomes(e, outcomes) ==
  \/ \A p \in Preds : ~(PredExists(p) /\ pred[p].event = e)
  \/ SameOutcomeSet(event[e].outcomes, outcomes)

\* update's read: the row without a lock, and the number of its predictions.
ReadForUpdate(h, e, outcomes, kickoff) ==
  /\ event[e].status \in {"OPEN", "LOCKED"}
  /\ kickoff # event[e].kickoff => event[e].status = "OPEN" /\ kickoff > now
  /\ MayReplaceOutcomes(e, outcomes)
  /\ Ask(h, [op |-> "update", event |-> e, outcomes |-> outcomes, kickoff |-> kickoff])
  /\ UNCHANGED <<event, pred, acca, now, walletVars>>

WriteUpdate(h) ==
  /\ req[h].op = "update"
  /\ Writable(req[h].event)
  /\ event' = [event EXCEPT ![req[h].event].outcomes = req[h].outcomes,
                            ![req[h].event].kickoff = req[h].kickoff]
  /\ Finish(h)
  /\ UNCHANGED <<pred, acca, now, walletVars>>

-----------------------------------------------------------------------------
(* PredictionService.place and cashout *)

\* place before its transaction: the outcome and its odds come from an unlocked read.
ReadForPlace(h, u, e, n, s, q) ==
  /\ EventExists(e) /\ n \in event[e].outcomes
  /\ Ask(h, [op |-> "place", user |-> u, event |-> e, name |-> n, stake |-> s, price |-> q])
  /\ UNCHANGED <<event, pred, acca, now, walletVars>>

\* Mutant: the transaction trusts the event row read before it.
CommitPlaceUnchecked(h, p, accrual) ==
  LET r == req[h]
      row == NewPred(r.user, r.event, r.name, r.stake, r.price)
  IN  /\ r.op = "place"
      /\ Writable(r.event)
      /\ pred[p].status = "ABSENT"
      /\ pred' = [pred EXCEPT ![p] = row]
      /\ PostTokens([NoGrant EXCEPT ![r.user] = accrual], [b \in {p} |-> r.stake], NoRows,
                    [OwnerNow EXCEPT ![p] = r.user])
      /\ NoPoints
      /\ Finish(h)
      /\ UNCHANGED <<event, acca, now>>

\* The transaction of place; consumeTokens may credit an accrued allowance first.
CommitPlace(h, p, accrual) ==
  LET r == req[h]
      row == NewPred(r.user, r.event, r.name, r.stake, r.price)
  IN  /\ r.op = "place"
      /\ Writable(r.event) /\ Accepting(r.event)
      /\ pred[p].status = "ABSENT"
      /\ pred' = [pred EXCEPT ![p] = row]
      /\ PostTokens([NoGrant EXCEPT ![r.user] = accrual], [b \in {p} |-> r.stake], NoRows,
                    [OwnerNow EXCEPT ![p] = r.user])
      /\ NoPoints
      /\ Finish(h)
      /\ UNCHANGED <<event, acca, now>>

CashoutOpen(p) ==
  /\ pred[p].status = "PENDING"
  /\ EventExists(pred[p].event) /\ ~Finished(pred[p].event)

ValueOf(p, q) == CashoutValue(pred[p].stake, pred[p].price, q, Started(pred[p].event))

\* getCashoutValue, the quote at the start of cashout
ReadForCashout(h, p, q) ==
  /\ CashoutOpen(p) /\ ValueOf(p, q) > 0
  /\ Ask(h, [op |-> "cashout", pred |-> p, price |-> q])
  /\ UNCHANGED <<event, pred, acca, now, walletVars>>

\* Mutant: the transaction trusts the status that the quote saw.
CommitCashoutUnchecked(h, q) ==
  LET p == req[h].pred
  IN  /\ req[h].op = "cashout"
      /\ EventExists(pred[p].event) /\ ~RowLocked(pred[p].event)
      /\ WithinDrift(req[h].price, q)
      /\ PostPoints(NoRows, [b \in {p} |-> ValueOf(p, q)], OwnerNow)
      /\ pred' = [pred EXCEPT ![p].status = "CASHED_OUT", ![p].payout = ValueOf(p, q)]
      /\ NoTokens
      /\ Finish(h)
      /\ UNCHANGED <<event, acca, now>>

\* The transaction of cashout: it locks the prediction, then the event, and prices again.
CommitCashout(h, q) ==
  LET p == req[h].pred
  IN  /\ req[h].op = "cashout"
      /\ CashoutOpen(p) /\ ~RowLocked(pred[p].event)
      /\ WithinDrift(req[h].price, q)
      /\ PostPoints(NoRows, [b \in {p} |-> ValueOf(p, q)], OwnerNow)
      /\ pred' = [pred EXCEPT ![p].status = "CASHED_OUT", ![p].payout = ValueOf(p, q)]
      /\ NoTokens
      /\ Finish(h)
      /\ UNCHANGED <<event, acca, now>>

-----------------------------------------------------------------------------
(* AccumulatorService.place *)

LegsChosen(legs) == {e \in Events : legs[e].status = "PENDING"}

ReadForAccumulate(h, u, s, legs) ==
  /\ Cardinality(LegsChosen(legs)) \in 2 .. MaxLegs
  /\ \A e \in LegsChosen(legs) : Accepting(e) /\ legs[e].name \in event[e].outcomes
  /\ Ask(h, [op |-> "accumulate", user |-> u, stake |-> s, legs |-> legs])
  /\ UNCHANGED <<event, pred, acca, now, walletVars>>

\* The transaction of place: it locks every event and looks at it again.
CommitAccumulate(h, a, accrual) ==
  LET r == req[h]
  IN  /\ r.op = "accumulate"
      /\ \A e \in LegsChosen(r.legs) : Writable(e) /\ Accepting(e)
      /\ acca[a].status = "ABSENT"
      /\ acca' = [acca EXCEPT ![a] = NewAcca(r.user, r.stake, r.legs)]
      /\ PostTokens([NoGrant EXCEPT ![r.user] = accrual], [b \in {a} |-> r.stake], NoRows,
                    [OwnerNow EXCEPT ![a] = r.user])
      /\ NoPoints
      /\ Finish(h)
      /\ UNCHANGED <<event, pred, now>>

-----------------------------------------------------------------------------
(* EventService.settle, cancel, uncancel: one transaction each, that locks *)
(* the event row and reads the accumulators (Begin), and commits.          *)

BeginSettle(h, e, n) ==
  /\ Writable(e) /\ ~Finished(e)
  /\ n \in event[e].outcomes
  /\ Ask(h, [op |-> "settle", event |-> e, outcome |-> n, view |-> acca])
  /\ UNCHANGED <<event, pred, acca, now, walletVars>>

\* Streak bonuses: only users with a winning prediction get one.
BonusFor(e, n) ==
  {bonus \in [Users -> Bonuses] :
     \A u \in Users : bonus[u] # 0 => \E p \in WinnersOf(e, n) : pred[p].user = u}

CommitSettle(h, bonus) ==
  LET r == req[h]
  IN  /\ r.op = "settle"
      /\ bonus \in BonusFor(r.event, r.outcome)
      /\ pred' = SettledPreds(r.event, r.outcome)
      /\ acca' = SettledAccas(r.view, r.event, r.outcome)
      /\ PostPoints(Both(PredWins(r.event, r.outcome), AccaSettleWins(r.view, r.event, r.outcome)),
                    NoRows, OwnerNow)
      /\ PostTokens(bonus, NoRows, NoRows, OwnerNow)
      /\ event' = [event EXCEPT ![r.event].status = "SETTLED", ![r.event].final = r.outcome,
                                ![r.event].settledAt = now]
      /\ Finish(h)
      /\ UNCHANGED now

BeginCancel(h, e) ==
  /\ Writable(e) /\ ~Finished(e)
  /\ Ask(h, [op |-> "cancel", event |-> e, view |-> acca])
  /\ UNCHANGED <<event, pred, acca, now, walletVars>>

CommitCancel(h) ==
  LET r == req[h]
  IN  /\ r.op = "cancel"
      /\ pred' = RefundedPreds(r.event)
      /\ acca' = CancelledAccas(r.view, r.event)
      /\ PostTokens(NoGrant, NoRows,
                    Both(StakesOf(r.event, "PENDING"), AccaCancelRefunds(r.view, r.event)),
                    OwnerNow)
      /\ PostPoints(AccaCancelWins(r.view, r.event), NoRows, OwnerNow)
      /\ event' = [event EXCEPT ![r.event].status = "CANCELLED", ![r.event].settledAt = now]
      /\ Finish(h)
      /\ UNCHANGED now

BeginUncancel(h, e) ==
  /\ Writable(e) /\ event[e].status = "CANCELLED"
  /\ Restorable(acca, e)
  /\ Ask(h, [op |-> "uncancel", event |-> e, view |-> acca])
  /\ UNCHANGED <<event, pred, acca, now, walletVars>>

\* The stakes are taken again from users who may have spent the refund: one who cannot pay
\* rejects the transaction (the bound on PostTokens' balance).
CommitUncancel(h) ==
  LET r == req[h]
      stakes == Both(StakesOf(r.event, "REFUNDED"), AccaRestoreStakes(r.view, r.event))
  IN  /\ r.op = "uncancel"
      /\ \A a \in Reopened(r.view, r.event) \cup Repriced(r.view, r.event) :
           acca[a].status # "DELETED"
      /\ \A b \in DOMAIN stakes : tokenLedger[b].stake + stakes[b] <= MaxStaked
      /\ pred' = RestoredPreds(r.event)
      /\ acca' = RestoredAccas(r.view, r.event)
      /\ PostTokens(NoGrant, stakes, NoRows, OwnerNow)
      /\ NoPoints
      /\ event' = [event EXCEPT ![r.event].status = IF Started(r.event) THEN "LOCKED" ELSE "OPEN",
                                ![r.event].settledAt = 0]
      /\ Finish(h)
      /\ UNCHANGED now

-----------------------------------------------------------------------------
(* deleteOldFinishedEvents: the ids are read first and not checked again. *)

OldFinished == {e \in Events : Finished(e) /\ event[e].settledAt + DeleteAge < now}

ReadForDelete(h) ==
  /\ OldFinished # {}
  /\ Ask(h, [op |-> "delete", events |-> OldFinished])
  /\ UNCHANGED <<event, pred, acca, now, walletVars>>

CommitDelete(h) ==
  LET S == req[h].events
  IN  /\ req[h].op = "delete"
      /\ \A e \in S : ~RowLocked(e)
      /\ pred' = PurgedPreds(S)
      /\ acca' = PurgedAccas(S)
      /\ event' = [e \in Events |-> IF e \in S THEN [event[e] EXCEPT !.status = "DELETED"]
                                    ELSE event[e]]
      /\ Finish(h)
      /\ UNCHANGED <<now, walletVars>>

-----------------------------------------------------------------------------

LegChoices == {NoLeg} \cup [status : {"PENDING"}, name : Names, price : Prices]

Admin(h) ==
  \/ \E e \in Events :
       \/ ReadForLock(h, e) \/ BeginCancel(h, e) \/ BeginUncancel(h, e)
       \/ \E n \in Names : BeginSettle(h, e, n)
       \/ \E outcomes \in OutcomeLists, k \in 1 .. MaxTime : ReadForUpdate(h, e, outcomes, k)
  \/ WriteLock(h) \/ WriteUpdate(h) \/ CommitCancel(h) \/ CommitUncancel(h)
  \/ \E bonus \in [Users -> Bonuses] : CommitSettle(h, bonus)

Bettor(h) ==
  \/ \E u \in Users, e \in Events, n \in Names, s \in Stakes, q \in Prices :
       ReadForPlace(h, u, e, n, s, q)
  \/ \E p \in Preds, accrual \in Accruals : CommitPlace(h, p, accrual)
  \/ \E p \in Preds, q \in Prices : ReadForCashout(h, p, q)
  \/ \E q \in Prices : CommitCashout(h, q)
  \/ \E u \in Users, s \in Stakes, legs \in [Events -> LegChoices] :
       ReadForAccumulate(h, u, s, legs)
  \/ \E a \in Accas, accrual \in Accruals : CommitAccumulate(h, a, accrual)

Cleaner(h) == ReadForDelete(h) \/ CommitDelete(h)

Next ==
  \/ Tick \/ AutoLock
  \/ \E e \in Events, outcomes \in OutcomeLists, k \in 1 .. MaxTime : Create(e, outcomes, k)
  \/ \E h \in Handlers : Admin(h) \/ Bettor(h) \/ Cleaner(h) \/ Abort(h)

Spec == Init /\ [][Next]_vars
============================================================================

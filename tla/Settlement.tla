----------------------------- MODULE Settlement -----------------------------
(***************************************************************************)
(* The settlement worker (services/settlementWorker.ts, the timers of      *)
(* index.ts) over the life cycle of events that the odds provider knows.   *)
(* What settling and cancelling do to bets is in Betting; here they are    *)
(* single steps, and an event is its status, whether anybody bet on it and *)
(* when it was finished.                                                   *)
(*                                                                         *)
(* A run is a sequence of awaits: lock the started events, cancel those    *)
(* nobody bet on, delete the old ones, read a batch of locked events, and  *)
(* for each sport fetch the scores and settle.  Administrators and users   *)
(* act between any two of them, and time passes.                           *)
(***************************************************************************)
EXTENDS Integers, FiniteSets, FiniteSetsExt

CONSTANTS
  Events,
  StartsAt,     \* [Events -> Nat], in days
  SportOf,      \* [Events -> sports]
  Batch,        \* SETTLEMENT_BATCH_SIZE
  Lookback,     \* SCORE_LOOKBACK_DAYS
  StaleAfter,   \* thresholdHours of cleanupStaleUnpredictedEvents
  KeepFor,      \* thresholdDays of deleteOldFinishedEvents
  ByHand,       \* bound: the events administrators settle, cancel and restore
  MaxNow,       \* bound: the clock
  MaxFaults     \* bound: failed fetches, failed transactions and crashes

ASSUME SettlementAssumption ==
  /\ StartsAt \in [Events -> Nat]
  /\ ByHand \subseteq Events
  /\ {Batch, Lookback, StaleAfter, KeepFor, MaxNow, MaxFaults} \subseteq Nat
  /\ Batch > 0

VARIABLES
  now,
  status,    \* Event.status; "none" before it is created, "gone" when it is deleted
  bets,      \* somebody predicted it
  finished,  \* Event.settledAt
  result,    \* the provider's completed score: none, one that names an outcome, or neither
  cache,     \* scoresCache: the entries that have not expired
  worker,    \* how far the run is; idle is isRunning = false
  faults

vars == <<now, status, bets, finished, result, cache, worker, faults>>
eventVars == <<status, bets, finished>>

Sports == {SportOf[e] : e \in Events}
\* What the worker asks the provider for at once: events of one sport
Batches == {ids \in SUBSET Events : Cardinality({SportOf[e] : e \in ids}) = 1}
Idle == [pc |-> "idle", todo |-> {}, due |-> {}]
Entry == [ids : Batches, done : SUBSET Events]

SettlementTypeOK ==
  /\ now \in 0 .. MaxNow
  /\ status \in [Events -> {"none", "OPEN", "LOCKED", "SETTLED", "CANCELLED", "gone"}]
  /\ bets \in [Events -> BOOLEAN]
  /\ finished \in [Events -> 0 .. MaxNow]
  /\ result \in [Events -> {"none", "named", "unknown"}]
  /\ cache \subseteq Entry
  /\ worker \in [pc : {"idle", "locked", "cancel", "cleaned", "delete", "deleted", "poll"},
                 todo : SUBSET Events, due : SUBSET Events]
  /\ faults \in 0 .. MaxFaults

Live(e) == status[e] \in {"OPEN", "LOCKED"}
Finished(e) == status[e] \in {"SETTLED", "CANCELLED"}
Started(e) == StartsAt[e] <= now
InWindow(e) == Started(e) /\ now - StartsAt[e] <= Lookback
\* Mutant: only open events, which the same run has just locked
StaleOpen(e) == status[e] = "OPEN" /\ ~bets[e] /\ now - StartsAt[e] > StaleAfter

Stale(e) == Live(e) /\ ~bets[e] /\ now - StartsAt[e] > StaleAfter
Old(e) == Finished(e) /\ now - finished[e] > KeepFor

Init ==
  /\ now = 0 /\ faults = 0
  /\ status = [e \in Events |-> "none"]
  /\ bets = [e \in Events |-> FALSE]
  /\ finished = [e \in Events |-> 0]
  /\ result = [e \in Events |-> "none"]
  /\ cache = {}
  /\ worker = Idle

\* Mutant: the date on which the event may be deleted.
FinishAhead(e, s) ==
  /\ status' = [status EXCEPT ![e] = s]
  /\ finished' = [finished EXCEPT ![e] = now + KeepFor]
  /\ UNCHANGED bets

Finish(e, s) ==
  /\ status' = [status EXCEPT ![e] = s]
  /\ finished' = [finished EXCEPT ![e] = now]
  /\ UNCHANGED bets

Fault == faults < MaxFaults /\ faults' = faults + 1
Go(pc, todo, due) == worker' = [pc |-> pc, todo |-> todo, due |-> due]

-----------------------------------------------------------------------------
(* Everybody else *)

Tick == now < MaxNow /\ now' = now + 1 /\ UNCHANGED <<eventVars, result, cache, worker, faults>>

\* An administrator or the import makes the event; the import does so again when it was deleted
\* before it started.
Create(e) ==
  /\ status[e] \in {"none", "gone"} /\ ~Started(e)
  /\ status' = [status EXCEPT ![e] = "OPEN"]
  /\ UNCHANGED <<now, bets, finished, result, cache, worker, faults>>

Bet(e) ==
  /\ status[e] = "OPEN" /\ ~Started(e) /\ ~bets[e]
  /\ bets' = [bets EXCEPT ![e] = TRUE]
  /\ UNCHANGED <<now, status, finished, result, cache, worker, faults>>

\* The provider completes the score of an event; the name of the winner may be one that no
\* outcome of the event matches.
Complete(e) ==
  /\ Started(e) /\ result[e] = "none"
  /\ \E r \in {"named", "unknown"} : result' = [result EXCEPT ![e] = r]
  /\ UNCHANGED <<now, eventVars, cache, worker, faults>>

AdminFinish(e) ==
  /\ e \in ByHand /\ Live(e)
  /\ \E s \in {"SETTLED", "CANCELLED"} : Finish(e, s)
  /\ UNCHANGED <<now, result, cache, worker, faults>>

AdminUncancel(e) ==
  /\ e \in ByHand /\ status[e] = "CANCELLED"
  /\ status' = [status EXCEPT ![e] = IF Started(e) THEN "LOCKED" ELSE "OPEN"]
  /\ finished' = [finished EXCEPT ![e] = 0]
  /\ UNCHANGED <<now, bets, result, cache, worker, faults>>

\* setCachedValue's time to live runs out.
Expire(ids) ==
  /\ \E c \in cache : c.ids = ids /\ cache' = cache \ {c}
  /\ UNCHANGED <<now, eventVars, result, worker, faults>>

\* The process stops and is started again: what it kept in memory is lost.
Crash ==
  /\ worker # Idle \/ cache # {}
  /\ Fault
  /\ worker' = Idle /\ cache' = {}
  /\ UNCHANGED <<now, eventVars, result>>

-----------------------------------------------------------------------------
(* One run of the worker *)

\* The timer fires, or an administrator asks: autoLockStartedEvents.
Begin ==
  /\ worker = Idle
  /\ status' = [e \in Events |-> IF status[e] = "OPEN" /\ Started(e) THEN "LOCKED" ELSE status[e]]
  /\ Go("locked", {}, {})
  /\ UNCHANGED <<now, bets, finished, result, cache, faults>>

\* cleanupStaleUnpredictedEvents: the list, then one transaction for each
ReadStale ==
  /\ worker.pc = "locked"
  /\ Go("cancel", {e \in Events : Stale(e)}, {})
  /\ UNCHANGED <<now, eventVars, result, cache, faults>>

CancelStale ==
  /\ worker.pc = "cancel"
  /\ \/ \E e \in worker.todo :
          /\ Go("cancel", worker.todo \ {e}, {})
          /\ \/ Live(e) /\ Finish(e, "CANCELLED")
             \/ Finished(e) /\ UNCHANGED eventVars
     \/ worker.todo = {} /\ Go("cleaned", {}, {}) /\ UNCHANGED eventVars
  /\ UNCHANGED <<now, result, cache, faults>>

\* deleteOldFinishedEvents: the list, then one transaction for all, by their ids
ReadOld ==
  /\ worker.pc = "cleaned"
  /\ Go("delete", {e \in Events : Old(e)}, {})
  /\ UNCHANGED <<now, eventVars, result, cache, faults>>

DeleteOld ==
  /\ worker.pc = "delete"
  /\ status' = [e \in Events |-> IF e \in worker.todo THEN "gone" ELSE status[e]]
  /\ bets' = [e \in Events |-> bets[e] /\ e \notin worker.todo]
  /\ finished' = [e \in Events |-> IF e \in worker.todo THEN 0 ELSE finished[e]]
  /\ Go("deleted", {}, {})
  /\ UNCHANGED <<now, result, cache, faults>>

\* The batch: those that started last
Newest(es) ==
  {e \in es : Cardinality({f \in es : StartsAt[f] > StartsAt[e]}) < Batch}

\* Mutant: the window looks at the future, as with lte and gte swapped.
EligibleAhead(e) == status[e] = "LOCKED" /\ now <= StartsAt[e] /\ StartsAt[e] - now <= Lookback

Eligible(e) == status[e] = "LOCKED" /\ InWindow(e)

Poll ==
  /\ worker.pc = "deleted"
  /\ LET batch == Newest({e \in Events : Eligible(e)})
     IN  IF batch = {} THEN worker' = Idle ELSE Go("poll", batch, {})
  /\ UNCHANGED <<now, eventVars, result, cache, faults>>

Completed(es) == {e \in es : result[e] # "none"}

\* getScores and determineOutcome for the events of one sport: from the cache, from the provider,
\* or not at all
Fetch(s) ==
  LET mine == {e \in worker.todo : SportOf[e] = s}
      Scores(done) == {e \in mine \cap done : result[e] = "named"}
      cached == {c \in cache : c.ids = mine}
  IN  /\ worker.pc = "poll" /\ worker.due = {} /\ mine # {}
      /\ \/ \E c \in cached :
              Go("poll", worker.todo \ mine, Scores(c.done)) /\ UNCHANGED <<cache, faults>>
         \/ /\ cached = {}
            /\ cache' = cache \cup {[ids |-> mine, done |-> Completed(mine)]}
            /\ Go("poll", worker.todo \ mine, Scores(Completed(mine)))
            /\ UNCHANGED faults
         \/ /\ cached = {}
            /\ Fault
            /\ Go("poll", worker.todo \ mine, {})
            /\ UNCHANGED cache
      /\ UNCHANGED <<now, eventVars, result>>

\* settle in its own transaction; it may fail, and the event may have been finished, or deleted,
\* since the batch was read.
SettleNext ==
  /\ worker.pc = "poll"
  /\ \E e \in worker.due :
       /\ Go("poll", worker.todo, worker.due \ {e})
       /\ \/ Live(e) /\ Finish(e, "SETTLED") /\ UNCHANGED faults
          \/ Live(e) /\ Fault /\ UNCHANGED eventVars
          \/ ~Live(e) /\ UNCHANGED <<eventVars, faults>>
  /\ UNCHANGED <<now, result, cache>>

\* Mutant: isRunning is not reset when something throws.
AbortStuck ==
  /\ worker.pc \in {"locked", "cancel", "cleaned", "delete", "deleted"}
  /\ Fault
  /\ Go("cancel", {e \in Events : status[e] = "gone"}, {})
  /\ UNCHANGED <<now, eventVars, result, cache>>

\* A statement before the loop throws: finally resets isRunning.
Abort ==
  /\ worker.pc \in {"locked", "cancel", "cleaned", "delete", "deleted"}
  /\ Fault
  /\ worker' = Idle
  /\ UNCHANGED <<now, eventVars, result, cache>>

End ==
  /\ worker.pc = "poll" /\ worker.todo = {} /\ worker.due = {}
  /\ worker' = Idle
  /\ UNCHANGED <<now, eventVars, result, cache, faults>>

Run ==
  \/ Begin \/ ReadStale \/ CancelStale \/ ReadOld \/ DeleteOld \/ Poll
  \/ (\E s \in Sports : Fetch(s)) \/ SettleNext \/ End

Next ==
  \/ Run \/ Abort \/ Crash \/ Tick
  \/ \E ids \in Batches : Expire(ids)
  \/ \E e \in Events : Create(e) \/ Bet(e) \/ Complete(e) \/ AdminFinish(e) \/ AdminUncancel(e)

\* The interval fires again and again, a run goes on, and a cached answer gets too old.
Fairness == WF_vars(Run) /\ \A ids \in Batches : WF_vars(Expire(ids))

Spec == Init /\ [][Next]_vars /\ Fairness

-----------------------------------------------------------------------------
(* Properties *)

(* An event with bets whose score the provider has completed does not hang *)
(* (settlementWorker.ts:49-199): it is settled while it is in the window   *)
(* of the poll, whatever fails, is cached, or is done by hand meanwhile.   *)
ResultsAreSettled ==
  \A e \in Events :
    Live(e) /\ Started(e) /\ result[e] = "named" ~> ~Live(e) \/ ~InWindow(e)

(* An event nobody bet on does not stay open or locked, whatever its score *)
(* (events.ts:715-748; README.md:154 "Cancels stale events with no         *)
(* predictions").                                                          *)
StaleAreCancelled ==
  \A e \in Events : Live(e) /\ ~bets[e] /\ now - StartsAt[e] > StaleAfter ~> ~Live(e)

(* A run that has begun ends, and the next one is not skipped as           *)
(* overlapping for ever (settlementWorker.ts:53-57, 196-198).              *)
RunsEnd == worker # Idle ~> worker = Idle
=============================================================================

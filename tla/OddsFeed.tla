------------------------------ MODULE OddsFeed ------------------------------
(***************************************************************************)
(* The odds of one upcoming event on their way from the provider to a bet: *)
(* the client's cache (services/oddsApi.ts), the import and the sync       *)
(* (eventImport.ts, oddsSync.ts), and the pricing of a bet                 *)
(* (predictions.ts, resolveEventOddsWithFallback).                         *)
(*                                                                         *)
(* A price is its age.  The cache hands it on for TTL, everybody who reads *)
(* it stamps the row with the time of the reading, and a bet whose fetch   *)
(* fails trusts a row whose stamp is not older than Threshold.             *)
(***************************************************************************)
EXTENDS Integers, FiniteSets

CONSTANTS
  Importers,  \* the timer, the start-up and the administrators that may import
  Syncers,    \* the timer and the administrators that may sync
  Bettors,    \* requests that price a bet
  NoRow,
  Rows,       \* rows that Event may have for the provider's event
  TTL,        \* cacheTtlMs
  Threshold,  \* ODDS_STALENESS_THRESHOLD_MS
  MaxLag,     \* bound: how long one fetch, and then one write, may take
  MaxAge      \* bound: ages are not counted further

ASSUME OddsFeedAssumption ==
  /\ NoRow \notin Rows
  /\ Importers \cap Syncers = {} /\ Importers \cap Bettors = {} /\ Syncers \cap Bettors = {}
  /\ {TTL, Threshold, MaxLag, MaxAge} \subseteq Nat /\ TTL > 0
  /\ MaxAge > Threshold + TTL + 2 * MaxLag

VARIABLES
  row,       \* the rows with the event's externalEventId
  cache,     \* sportOddsCache
  critical,  \* shouldPauseNonEssentialPolling
  running,   \* running[s]: isRunning of the import and of the sync
  proc

feedVars == <<row, cache, critical, running, proc>>

Ages == 0 .. MaxAge
Older(a) == IF a < MaxAge THEN a + 1 ELSE a

Absent == [there |-> FALSE, age |-> 0, stamp |-> 0]
Odds(age, stamp) == [there |-> TRUE, age |-> age, stamp |-> stamp]
Empty == [left |-> 0, age |-> 0]
Rest == [pc |-> "idle", age |-> 0, lag |-> 0, row |-> NoRow]
Runners == Importers \cup Syncers
Procs == Runners \cup Bettors
Service(p) == IF p \in Importers THEN "import" ELSE "sync"

OddsFeedTypeOK ==
  /\ row \in [Rows -> [there : BOOLEAN, age : Ages, stamp : Ages]]
  /\ cache \in [left : 0 .. TTL, age : Ages]
  /\ critical \in BOOLEAN
  /\ running \in [{"import", "sync"} -> BOOLEAN]
  /\ proc \in [Procs -> [pc : {"idle", "fetch", "have", "found", "missing"},
                         age : Ages, lag : 0 .. MaxLag, row : Rows \cup {NoRow}]]

Present == {r \in Rows : row[r].there}

FeedInit ==
  /\ row = [r \in Rows |-> Absent]
  /\ cache = Empty
  /\ critical = FALSE
  /\ running = [s \in {"import", "sync"} |-> FALSE]
  /\ proc = [p \in Procs |-> Rest]

Step(p, pc, age, r) ==
  proc' = [proc EXCEPT ![p] = [pc |-> pc, age |-> age, lag |-> 0, row |-> r]]

\* No step takes longer than MaxLag.
FeedTick ==
  /\ \A p \in Procs : proc[p] # Rest => proc[p].lag < MaxLag
  /\ row' = [r \in Rows |-> IF row[r].there THEN Odds(Older(row[r].age), Older(row[r].stamp))
                           ELSE Absent]
  /\ cache' = IF cache.left > 1 THEN [left |-> cache.left - 1, age |-> Older(cache.age)] ELSE Empty
  /\ proc' = [p \in Procs |-> IF proc[p] = Rest THEN Rest
                             ELSE [proc[p] EXCEPT !.age = Older(@), !.lag = @ + 1]]
  /\ UNCHANGED <<critical, running>>

\* The process ends and starts again: the rows are all that is left.
FeedRestart ==
  /\ cache' = Empty /\ critical' = FALSE
  /\ running' = [s \in {"import", "sync"} |-> FALSE]
  /\ proc' = [p \in Procs |-> Rest]
  /\ UNCHANGED row

\* The event is deleted, or detached from the provider.
Remove(r) ==
  /\ row[r].there
  /\ row' = [row EXCEPT ![r] = Absent]
  /\ UNCHANGED <<cache, critical, running, proc>>

-----------------------------------------------------------------------------
(* oddsApi.ts *)

Served == cache.left > 0

\* getOddsForSport: from the cache, or a request; p goes on in state pc once it has the odds.
Ask(p, r) ==
  IF Served THEN Step(p, "have", cache.age, r) ELSE Step(p, "fetch", 0, r)

\* The answer, which also tells the quota that is left
Receive(p) ==
  /\ proc[p].pc = "fetch"
  /\ cache' = [left |-> TTL, age |-> proc[p].age]
  /\ critical' \in BOOLEAN
  /\ Step(p, "have", proc[p].age, proc[p].row)
  /\ UNCHANGED <<row, running>>

\* POST /admin/odds/sync
ClearCache == cache # Empty /\ cache' = Empty /\ UNCHANGED <<row, critical, running, proc>>

-----------------------------------------------------------------------------
(* eventImport.ts and oddsSync.ts *)

\* Mutant: only the quota is looked at.
MayRunAgain(p) == proc[p] = Rest /\ ~critical

MayRun(p) == proc[p] = Rest /\ ~running[Service(p)] /\ ~critical

\* The sync reads the rows before it asks, the import looks for its row afterwards.
Run(p) ==
  /\ MayRun(p)
  /\ running' = [running EXCEPT ![Service(p)] = TRUE]
  /\ \/ p \in Importers /\ Ask(p, NoRow)
     \/ p \in Syncers /\ \E r \in Present : Ask(p, r)
  /\ UNCHANGED <<row, cache, critical>>

\* finally
Leave(p) ==
  /\ proc' = [proc EXCEPT ![p] = Rest]
  /\ running' = [running EXCEPT ![Service(p)] = FALSE]

\* The import goes on to its next sport, the sync throws; a failed answer tells the quota too.
FetchFails(p) ==
  /\ proc[p].pc = "fetch"
  /\ Leave(p)
  /\ critical' \in BOOLEAN
  /\ UNCHANGED <<row, cache>>

\* The provider lists the event no more, as started, or without odds.
NotListed(p) ==
  /\ proc[p].pc = "have"
  /\ Leave(p)
  /\ UNCHANGED <<row, cache, critical>>

Find(p) ==
  /\ proc[p].pc = "have"
  /\ \/ \E r \in Present : proc' = [proc EXCEPT ![p].pc = "found", ![p].row = r]
     \/ Present = {} /\ proc' = [proc EXCEPT ![p].pc = "missing"]
  /\ UNCHANGED <<row, cache, critical, running>>

\* event.update by id; it throws if the row has gone.
Store(r, age, stamp) ==
  row' = IF r \in Present THEN [row EXCEPT ![r] = Odds(age, stamp)] ELSE row

\* Stamped with the time of the writing
WriteOdds(p) ==
  /\ proc[p].pc = IF p \in Syncers THEN "have" ELSE "found"
  /\ Store(proc[p].row, proc[p].age, 0)
  /\ Leave(p)
  /\ UNCHANGED <<cache, critical>>

\* event.create, which nothing but the look-up before keeps from doing it twice
CreateRow(p) ==
  /\ proc[p].pc = "missing"
  /\ \E r \in Rows \ Present : row' = [row EXCEPT ![r] = Odds(proc[p].age, 0)]
  /\ Leave(p)
  /\ UNCHANGED <<cache, critical>>

-----------------------------------------------------------------------------
(* predictions.ts *)

PriceBet(p) ==
  /\ proc[p] = Rest
  /\ \E r \in Present : Ask(p, r)
  /\ UNCHANGED <<row, cache, critical, running>>

\* Live odds: persistEventOdds keeps them with the time of the reading, or fails silently.
BetLive(p) ==
  /\ proc[p].pc = "have"
  /\ Store(proc[p].row, proc[p].age, proc[p].lag)
  /\ proc' = [proc EXCEPT ![p] = Rest]
  /\ UNCHANGED <<cache, critical, running>>

\* Mutant: the stored odds are trusted whatever their age.
FreshAlways(r) == r \in Present

Fresh(r) == r \in Present /\ row[r].stamp <= Threshold

\* The fetch failed, or the provider does not list the event any more: the stored odds, if they
\* are fresh, or no bet
BetStored(p) ==
  /\ \/ proc[p].pc = "fetch" /\ critical' \in BOOLEAN
     \/ proc[p].pc = "have" /\ UNCHANGED critical
  /\ proc' = [proc EXCEPT ![p] = Rest]
  /\ UNCHANGED <<row, cache, running>>

FeedNext ==
  \/ FeedTick \/ FeedRestart \/ ClearCache
  \/ \E r \in Rows : Remove(r)
  \/ \E p \in Procs : Receive(p)
  \/ \E p \in Runners : Run(p) \/ FetchFails(p) \/ NotListed(p) \/ WriteOdds(p)
  \/ \E p \in Importers : Find(p) \/ CreateRow(p)
  \/ \E p \in Bettors : PriceBet(p) \/ BetLive(p) \/ BetStored(p)
=============================================================================

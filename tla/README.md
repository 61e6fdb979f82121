# Verification of the betting platform

TLA+ models of the backend (`src/src`) and of the stateful parts of the web application
(`src/frontend/src`), TLC configurations that check them on small instances, and TLAPS proofs.
Everything is translated from the TypeScript sources and the Prisma schema; `PROJECT.json`
maps every definition to the lines it stands for. Paths below are relative to the repository root
(`services/...` is `src/src/services/...` in `PROJECT.json`).

## 1. The system

One Node.js process (Express) over one PostgreSQL database through Prisma. There are no locks in
the process: requests and timers interleave at every `await`, and all coordination is done by
database transactions, at PostgreSQL's default level READ COMMITTED, with explicit
`SELECT ... FOR UPDATE` where the author asked for it. A statement outside a transaction, or a
plain read inside one, sees the latest commit and protects nothing.

| component | state | operations | interacts with | hard part | what makes it correct |
|---|---|---|---|---|---|
| Ledgers (`ledgerCore`, `ledger`, `pointsLedger`) | cached balances on `User`, append-only `TokenTransaction` / `PointsTransaction` | credit, debit, signup bonus, verify, repair | called inside every transaction that moves tokens or points | balance and rows written in separate statements; repair without a lock | balance = sum of rows, never negative |
| Events (`events.ts`) | `Event.status`, outcomes, kickoff, result | create, update, lock, auto-lock, settle, cancel, uncancel, cleanups, updateOdds | settles predictions and accumulators, credits points, refunds tokens, updates the leaderboard | check-then-act in lock, update, delete; long sequences of cancel/uncancel | no bet outlives its event; status flow OPEN, LOCKED, SETTLED or CANCELLED |
| Predictions (`predictions.ts`, `outcomes.ts`) | `Prediction` | place, cashout (with quote) | event row, allowance, ledgers | quote and validation from unlocked reads | stake held once, paid at most once, verdict follows the result |
| Accumulators (`accumulators.ts`) | `Accumulator`, `AccumulatorLeg` | place; settle, cancel, restore the legs of an event | run inside the event's transaction | the accumulator is shared by several events and locked by none | verdict, payout and refund follow from all legs |
| Token allowance (`tokenAllowance.ts`) | `TokenAllowance`, `User.tokenBalance` | accrual by day and week, consumption, synchronisation | place (tokens), ledgers, `repairBalance`, admin credits | the day is computed before the locks are awaited; the row goes stale after credits and repairs | a week's credit never exceeds what start amount and days allow, never above the maximum |
| Rewards (`rewards.ts`) | `Reward`, `Redemption` | create, update, redeem, fulfil, cancel | points ledger | cancel and fulfil check the status outside the write; prices and limits change | one debit, one refund at the price paid, stock = items held |
| Leaderboard, achievements (`leaderboard.ts`, `achievements.ts`) | `Leaderboard`, `Achievement`, `UserAchievement`, the process flag `definitionsEnsured` | update after settlement, streak bonus, awards | settle, points ledger | absolute values written after an unlocked read; flag set in a transaction that may roll back | a bonus needs the wins it is for; an award comes with its win |
| Leagues (`leagues.ts`, `leagueStandings.ts`) | `League`, `LeagueMembership`, `LeagueStanding` | create, join, leave, transfer, kick, update, delete; recompute standings | settle (after its commit), daily timer | roles read without a lock; recalculations read several statements apart | one active owner, never overfull, ranks in order |
| Sessions (`services/auth.ts`, `middleware/auth.ts`, `lib/api.ts`, `AuthContext.tsx`) | refresh token hash and token version on `User`; cookie, hint, access token and `isRefreshing` in the browser | login, refresh, logout, logout everywhere, restore on load, retry after 401 | every request of the frontend | rotation is three statements; several requests of a tab share one refresh | a revoked session stays dead; every request ends |
| Credentials (`auth.ts`, `email.ts`) | password, address, verification flag, one-time links | forgot, reset, resend, verify, change password, update profile | sessions (revocation), mail | link checked before the write it allows | a replaced link sets no password |
| Settlement worker (`settlementWorker.ts`, `index.ts`) | overlap flag, score cache, events | lock started, cancel unpredicted, delete old, fetch scores, settle | events, odds API | failing statements, cached scores, events finished by hand | every result in the window is settled; runs end |
| Odds client, import, sync (`oddsApi.ts`, `eventImport.ts`, `oddsSync.ts`) | odds cache, quota pause, overlap flags, `Event.currentOdds` | import, sync, price a bet with fallback | external odds API, predictions | four writers without a condition, stamps taken at reading | one row per external event, no price older than cache and threshold allow |
| Routes, validation, mail, audit log (`routes/`, `middleware/`, `email.ts`, `auditLog.ts`) | none of their own | HTTP and formatting, checks of inputs | all services | a bulk import is many creates | (see 6) |
| Bet slip (`BetSlipContext.tsx`, `BetSlip.tsx`) | selections in React state and in localStorage by user | pick, drop, stake, submit | user shown, predictions API | effects load and store under a key that changes with the user | selections stay with the user who made them |
| Ledger pages (`WalletPage.tsx`, `TransactionHistoryPage.tsx`) | rows put together from answers | open, switch, load more | ledger histories | offsets against growing ledgers | no row is skipped |
| Predictions page (`PredictionsPage.tsx`) | list, filter, poll timer, cash-outs under way | filter, poll, cash out | predictions API | closures of the timer, late and lost answers | a decided prediction does not stay pending on the page |
| Administrators' events page (`AdminEventsPage.tsx`) | list, filter, drafts of odds, dialogs, loading flags | edit odds, settle, cancel, import, ... | events API, odds sync | lists arrive late and over rows being edited | what is saved is what the row shows |
| Frame (`App.tsx`, `Layout.tsx`, sign-in pages) | location, header numbers, sign-in and sign-out under way | route guards, sign in, sign out | AuthContext | requests that navigate when they end, late answers for a former user | redirects end; the header's number is the user's |
| Toasts (`ToastContext.tsx`) | toasts, their timers, a reference that lags behind | show, dismiss, timers | every page | decisions by an older list | no toast stays for ever |

## 2. The modules

    Wallets  <-  Predictions  <-  Accumulators  <-  Betting  <-  BettingProperties  <-  MCBetting
                                                      Bet  <-/ (INSTANCE)      \
                             Sums_proofs  <-  Betting_proofs  <-  Accumulators_proofs

    Rewards, Allowance, Credentials                      <-  Account  <-  MCAccount
    Sessions  <-  SessionsProperties, PredictionsPage                 <-  MCSessions
    Settlement                                                        <-  MCSettlement
    OddsFeed, Desk, Scores, Leagues                      <-  Season   <-  MCSeason
    Slip, History, PredictionsPage, Shell, Toasts        <-  Pages    <-  MCPages

    Account, Sums_proofs  <-  Account_proofs         Season  <-  Season_proofs
    SessionsProperties  <-  Sessions_proofs          Pages   <-  Pages_proofs
    Settlement  <-  Settlement_proofs

Account, Season and Pages put parts side by side that share no state: their next-state
relation moves one part and leaves the others alone, so a property of one part holds in the
composition exactly when it holds of the part. Their MC modules use this and explore
each part with the others in their initial states (`OnePartMoves`), which adds the state spaces
instead of multiplying them.

### Betting

* **Wallets** - the two ledgers. A posting (`PostTokens`, `PostPoints`) takes a batch of rows (a
  function from bets to amounts), moves the cached balances and the rows together, and is disabled
  when a balance would become negative or a points credit is zero, as `executeAtomicChange` throws
  and the whole transaction rolls back. Rows are kept as totals per bet and row type, which is all
  that the properties tell apart.
* **Predictions** - the `Prediction` table and what settling, cancelling, uncancelling and
  deleting an event does to it.
* **Accumulators** - the `Accumulator` and leg tables and the three functions an event's
  transaction calls. `view` is the table as the transaction read it; a write goes to the row as it is
  at the commit, under the guard the code has (`updateMany ... status: PENDING`) or has not (`update`).
* **Betting** - the state machine: events, the requests in flight (`req[h]`), the clock, and one
  action per step of a request (`ReadFor...` / `Begin...` for what it reads before, `Commit...` /
  `Write...` for the transaction).
* **Bet** - the abstract specification: what the platform promises of one bet of either kind.
* **BettingProperties** - properties and the refinement mappings to Bet.
* **MCBetting** and the `.cfg` files - instances for TLC.
* **Betting_proofs** - theorems about types, predictions, events, balances and the refinement for
  predictions; **Accumulators_proofs** - those about accumulators; **Sums_proofs** - lemmas about sums over
  finite sets.

How the code's concurrency is modelled:

* A *handler* is a request or a timer run. What it read before its transaction and still uses is
  in `req[h]`. Between its steps any other handler may commit.
* `settle`, `cancel`, `uncancel` lock the event row first and then work for as long as the event
  has bets. They take two steps; while one is between them, every other statement that locks or
  updates that row waits (`RowLocked`). Prediction and User rows are locked before they are
  read, so they are taken as of the commit. Accumulators and legs are read without a lock, so they
  are taken as of the first step. The code reads each accumulator at some moment between the two;
  the earliest one is modelled, which is the one that other commits can falsify most.
* `place` locks the event and looks at it again, `cashout` locks the prediction and then the event,
  accumulator `place` locks every event: each is one step after the unlocked read it started from.
* `lock`, `update` and `deleteOldFinishedEvents` write by id without repeating their check.
* `Abort` is every end without a commit: a failed check, a rollback, a deadlock victim, the
  transaction timeout, a crash of the process. Requests in flight are the only volatile state, so a
  crash is a number of Aborts.
* A row that does not exist yet is `ABSENT`; one that was deleted is `DELETED` and keeps its
  fields, so that properties can still speak of its ledger rows. `Event.final` likewise.
* Odds change at any time, so every price read is an arbitrary member of `Prices`. Prices are fixed
  point and exact; the rounding of binary floating point is left out.
  `Norm` maps spellings to what `normalizeOutcome` keeps of them.
* `cleanupStaleUnpredictedEvents` is a loop over `cancel`; `Event` rows without bets are therefore
  covered by BeginCancel / CommitCancel.
* The allowance credited by a stake and the streak bonus of a settlement are arbitrary members of
  `Accruals` and `Bonuses` (a bonus only for a user with a winning prediction); Allowance and
  Scores say what they are. Tokens are spent on stakes only here; points are spent in Rewards.

### Account

* **Rewards** - the `Reward` and `Redemption` tables. `redeem` holds the reward row and the user row
  for its whole transaction and is one step; `fulfil` and `cancel` read the redemption without a lock
  (`ReadFor...`, kept in `desk[d]`) and write it by id later (`Commit...`). Prices, limits and status
  of a reward change in between.
* **Allowance** - `ensureAllowance` computes the UTC day before it waits for the row locks, so each
  call acts on today or on the day before. Rows are summed per user and day, which is what tells a
  second credit of a day apart. `repairBalance` is two steps (`ReadForRepair`, `WriteRepair`).
* **Credentials** - one account, the links mailed for it and the requests of several browsers, each
  a sequence of statements (`read`, `delete`, `create`, `commit`). A link keeps the address it went to.

### Sessions

The User row (`version`, `refresh`, `root`) and one browser. A lane is a request of a tab from the
first fetch to the end of its promise, with the nested refresh and the one retry in it. A refresh is
three statements on the server. Tokens are not enumerated: of a refresh token only whether it is the
one the row holds matters, since a token that the row lost never comes back. `root` is a history
variable: the version of the sign-in that the stored token descends from. Another browser acts as
`LoginElsewhere` and `RevokeElsewhere`; `Lose` is a lost request or answer.

### Settlement

The worker as its awaits, over the life cycle of events known to the provider. Settling and
cancelling are single steps here (Betting has what they do). A run starts whenever the interval
fires; a statement that throws (`Abort`), a failed fetch or settlement (the loop goes on) and the
restart of the process (`Crash`) are bounded by `MaxFaults`. Scores are cached per set of ids asked for,
expire, and may be read late. The first three steps of a start-up, which index.ts repeats
beside the interval, do what the run's own steps do and are not modelled twice.

### Season

* **OddsFeed** - one upcoming event and one process, which may end and start again at any moment (`FeedRestart`):
  flags, cache and runs are gone, the rows stay. A statement on its way when the process ends has been executed
  before or never is. `Remove` is the cleanup of old events or an administrator's detaching.
  A price is its age: the cache hands it on for `TTL`, whoever
  reads it stamps the row at the reading, and a bet whose fetch fails trusts a stamp not older than
  `Threshold`. Import and sync are guarded by their `isRunning` flags; the administrators' sync is not.
* **Desk** - AdminEventsPage: lists are requested with the filter of the click, arrive in any order,
  and land over rows that are being edited; orders share flags that other orders' `finally` clears.
* **Scores** - one user's all-time row. A settlement is a transaction whose statements are
  steps: a win posts points and so locks the user row until the end, a loss locks nothing
  before it writes the row that it read earlier. `ensured` is process state, shared by all transactions, and set
  while the one that sets it is still open; it survives a rollback. A transaction finds the definitions that are
  committed or its own (`Sees`), so a settlement that trusts the flag of an open transaction finds none; `saw`
  notes what the last check of a settlement found. Awards after a bet or a redemption (`CheckAndAward`), the
  lists (`ShowAchievements`) and the scoring of other users in the same settlement (`ScoreAnother`) set the flag in
  transactions that commit or roll back later. The process restarts here (`Restart`) and in OddsFeed (`FeedRestart`) by
  steps of each part, as the two share no state.
* **Leagues** - one league with its row lock (`holder`): join, transfer, kick hold it between read
  and write; leave, update and delete decide by an unlocked read; a recalculation reads
  memberships, results and rows in separate steps. The upserts of a recalculation and its ranking are one step, at
  the commit: the rows are locked from the first upsert on, so only two recalculations with disjoint memberships and
  no standings committed yet could overlap between ranking and commit, which is left out.

### Pages

* **Slip** - BetSlipContext and AuthContext in one tab. A selection carries who made it (`by`),
  which the code does not keep and the property needs. The two effects (load, persist) are
  steps that run before anything else renders (`EffectsDue`), except that the page may be left.
* **History** - two pages over two ledgers; a ledger is a number of rows, the newest the highest.
  An answer is two reads (rows, count) at different times.
* **PredictionsPage** - the list with its polling timer; the filter the timer asks for is the one
  its closure holds. Answers carry the statuses of the moment they were read.
* **Shell** - a location is the kind of its path and those that its query redirects to, each of which may have a
  query of its own, as a guard navigates to the whole string; the guards of App.tsx; the
  sign-in forms; the header, one of whose two equal loads stands for both.
* **Toasts** - a toast enters, is visible, leaves and is gone; its timers; and what `toastsRef` has
  of it, refreshed by an effect. A dismiss timer is seconds long, so the reference has caught up.

## 3. The runs

| run | instance | states | checks |
|---|---|---|---|
| bets (MCBets) | 2 users, 2 predictions, 1 event, 2 requests in flight | 502,677 | PredictionsPaidOnce, NothingOpenOnFinished, PredictionsAreBets: every interleaving of prediction operations with event operations |
| debts (MCDebts) | 2 users, 3 predictions, 2 events, 1 request at a time | 211,587 | TypeOK, BalancesMatchLedgers: a refund spent on another event before the cancellation is reversed; the reversal is refused as a whole |
| accas (MCAccas) | 1 accumulator over 2 events, 2 requests in flight that overlap in any way | 917,060 | AccumulatorsPaidOnce, AccumulatorMatchesLegs, AccumulatorsAreBets: no step parts an accumulator from its legs and its money but the three that the properties name |
| account (MCAccount) | 2 customers, 2 rewards, 2 redemptions, 2 desks, a limit that comes and goes; 2 token holders over 2 weeks; 2 browsers, 2 links of each kind | 983,971 | RedemptionMoney, StockCountsItems, NeverOversold; AccrualWithinEntitlement, AllowanceKeepsMaximum, DriftOnlyByRepair; ReplacedLinkIsDead |
| sessions (MCSessions) | 1 tab with 2 requests at a time, another browser, 2 versions; the predictions page with 1 prediction and 2 loads | 131,961 | OldSessionsAreDead, FlagClearWhenQuiet and, under fairness, EveryRequestEnds, DecidedIsShown |
| worker (MCSettlement) | 2 events of 2 sports, 5 days, 1 fault | 263,470 | under fairness ResultsAreSettled, StaleAreCancelled, RunsEnd |
| season (MCSeason) | 2 imports, a sync and a bet on one event; 1 event on the desk; 2 transactions that settle or award one user; 3 members, 2 requests and 2 recalculations of one league | 1,032,286 | ImportedOnce, PriceAge; SavesWhatItShows; BonusesNeedWins, AwardedByTheWin; OneOwner, NeverOverfull, StandingsInOrder |
| pages (MCPages) | 2 users, 2 selections; ledgers of up to 4 rows; 1 prediction, 2 loads; 1 administrator and 1 user at the frame, addresses of up to 3 nested places; 4 toasts | 752,887 | SlipStaysWithUser, NothingSkipped, RedirectsEnd, HeaderIsTheUsers, NoToastIsStuck |
| lock_race | 1 event, 2 requests | - | SettledIsFinal **violated**: finding 1 |
| respelled | 1 event, 1 request, two spellings | - | BackersNeverLose **violated**: finding 2 |
| write_skew | 1 accumulator over 2 events, 2 requests | - | NoAccumulatorWaitsForNothing **violated**: finding 3 |
| deleted_leg | 1 accumulator over 2 events, 1 request | - | CancelledMeansAllLegsCancelled **violated**: finding 4 |

Each passing run except bets and accas also checks one type invariant, and each property has a mutant
in `PROJECT.json`: a plausible slip in the code (a dropped guard, a missing reset) that violates it.

### Bounds, and why they are enough

* *Two handlers*: every race in these services is between one request's stale read and one commit
  of another request. A third one repeats a pair.
* *Two users and two predictions on one event* (bets): winner and loser, two bets of one user or of
  two. Predictions of different events share only the balances: that is debts, where a user who has
  spent the refund meets the reversal and another user on the same event has not. No race is
  needed for it, so one request at a time is enough there.
* *One accumulator over two events*: a leg decided while the other one is pending, won, lost or
  refunded. Accumulators share only balances.
* `MaxTime = 1`: before and after the kickoff. `MaxStaked = 4`, with a stake of 2: an event can be
  cancelled, reversed and cancelled again. `SignupBonus = 2` in debts is one stake, so that debits
  are refused; in accas it is 4, so that a stake which should not be taken again could be.
* `DeleteAge`: 0 lets the cleanup run after one tick. In debts it is 1, so that no event is deleted.
* accas: two requests overlap in any way, two decisions about the accumulator included, and the cleanup runs.
  `MaxStaked = 6` and `SignupBonus = 4` let two reversals take the stake twice. Its properties are about steps and
  name the ones that go wrong: `ReopensAgain`, a reversal that reopens what another reversal has reopened
  meanwhile, because `restoreCancelledLegsForEvent` writes without a status guard (accumulators.ts:514);
  `DecidedBlind`, the commit of a decision taken on an older row (finding 3); `LosesLeg`, the cleanup of a leg that
  counts (finding 4). Each of the three occurs in the run: without any one of them TLC finds the step.
  Two constraints leave out what adds nothing: requests that can never commit there, as there are no prediction ids, or
  that write what is there already (`NoIdleRequests`), and legs that differ only in which of two alike outcomes they
  back (`LegsBackHome`).
* Symmetry is over handlers, users and prediction ids in bets, and also over events in debts, over handlers and events in accas.
  No liveness is checked where symmetry is used, so it is sound.

The later runs:

* account: two requests of administrators run at a time (`Desks`) and may be about one redemption; `MCLimits`
  lets the limit of one reward be raised, lowered, set and removed while the other never has one. The shop's properties
  are about steps and name the ones that go wrong: the answer of a request that another one has overtaken, since
  `cancel` and `fulfil` write by id (`Overtaken`, rewards.ts:330-363: a second refund, an item fulfilled and refunded),
  or that noted a limit which has been set or removed since (`Outdated`). A limit set on a reward first redeemed
  without one starts with the counter behind the items (`Surplus`). `Repairable = {u2}`: a repair that writes a stale sum can leave a balance
  below zero, which the next week's credit fills in addition to what is due. Two weeks of two days
  show a day, a new day and a new week; tokens move for one user at a time because users share
  no row. Reset and change requests are explored apart from verification and profile
  requests, links are used in their order.
* sessions: the client's requests and the predictions page share no state and are explored each with the other at
  rest; the page's liveness is checked here, among fewer states than in pages. Two
  requests of a tab are what the shared `isRefreshing` needs; what others do to the row are LoginElsewhere and RevokeElsewhere. `MaxVersion = 2` is one revocation, after which
  everything older is dead. Two tabs with one request each (`Lanes = {l1, l3}`, 168,226 states of the requests) also satisfy
  all their properties.
* worker: `Batch = 2` has room for both events. With `Batch = 1` the older event starves: the
  batch takes the events that started last (settlementWorker.ts:85). One event can be finished and
  restored by hand, the other is the worker's alone. The window, the stale and the deletion
  age are one or two days, so that each border is crossed within the clock's bound.
* season: Feed: `TTL`, `Threshold` and the delays of a fetch and a write are one unit each, so the bound of
  PriceAge is reached exactly. Desk: one event, one order, one request of the page at a time; a settled event is not
  followed and odds are written once. Scores: five predictions, three on two events at a time,
  reach both a streak bonus and an award; the definitions may or may not be there at the start. Leagues: two requests and recalculations at a time for three members of a
  league for two; standings are explored while the second member is its owner.
* pages: one user has tokens (none, or enough for two bets) and types stakes of one token; a page of rows is one row and one
  ledger grows to four; two loads overlap, which is a late answer passing a newer one; an
  address is typed while the application opens, since typing it later leads to the same state;
  `Depth = 3` is an address whose query names a place with a query, and each further one is one redirect more;
  four toasts are one more than `MAX_VISIBLE_TOASTS`, so one has to make room. Two header loads
  under way are one late and one current.
* Deadlock checking is off in all of them: a bounded clock, bounded ids or a closed page leave nothing to do.

### Fairness

Two runs check liveness, sessions (which has the predictions page beside it) and worker; each assumes only what the runtime does by itself.

* Sessions: weak fairness of `Server(l)` and `Browser(l)` for each lane. The server goes on with a request it has
  received and the browser's event loop runs the continuation of an answer that has arrived. A
  request may still be lost (`Lose`), which the client sees as a network error; what fails is only
  that nothing at all comes back for ever, which `fetch` ends by an error.
* Settlement: weak fairness of `Run`: the interval of index.ts fires for ever, and a run is a sequence of awaits
  that each end. Weak fairness of `Expire(ids)`: a cache entry is compared with the clock at each
  use, so it does not live for ever. Nothing is assumed of administrators, users, the clock or the provider; faults
  are finitely many.
* PredictionsPage: weak fairness of the timer, and strong fairness of the server's reading and of the answer: the timer asks
  again and again, and an answer that is lost each time is the one thing that could keep a page
  wrong. Nothing is assumed of the user.

### Findings

1. `lock()` (events.ts:254-264) checks `OPEN` in one statement and updates by id in the next. If the
   event is settled in between it becomes LOCKED again and can be settled a second time with another
   outcome. `prisma/schema.prisma:295` states the flow OPEN -> LOCKED -> SETTLED.
2. `update()` accepts outcomes that differ in spelling only (events.ts:936), but `settle` compares
   the predicted outcome exactly (events.ts:345). Who backed the old spelling loses when it wins;
   an accumulator leg, compared after normalising, wins.
3. Two events of one accumulator decided concurrently each see the other's leg PENDING
   (accumulators.ts:239, 330): nobody decides the accumulator and its stake stays held.
4. `deleteOldFinishedEvents` removes decided legs of accumulators that are still pending
   (events.ts:764). If the last event is then cancelled, an accumulator with a won leg is refunded
   instead of paid; a lost leg that is removed makes no difference, as the verdict came with it.

A related case is visible in the abstract specification: `Bet!Purge` has to allow a PENDING bet.
The cleanup reads the ids of finished events first (events.ts:748) and does not check them
again, so an event that is uncancelled in between is deleted with its restored predictions, and their
stakes are gone.

### What the models show besides

Behaviour met while modelling that no run refutes, because no document promises otherwise or because the
properties are stated so that it is outside them. Each can be seen by weakening the named bound or guard.

* Credentials: "Marks the token as used so it cannot be replayed" (services/auth.ts:553) holds for uses one after the
  other; two simultaneous uses of a link both set a password. Two simultaneous forgot requests leave two live links. An
  e-mail change racing the confirmation of the old address marks the new one verified.
  Changing the password compares and writes without a guard; reset links survive an e-mail change.
* Sessions: a rotation that looked its token up before a revocation writes a new one after it, so
  the session survives (`root = 0`). After an answer of getMe that is late, the page can show a user
  who has left.
* Odds: a price of up to cache age plus threshold passes the 30 minutes check (oddsApi.ts:165). A
  pause for the quota ends only with an answer that nobody asks for while it lasts. A cancelled upcoming event
  that was deleted after a day is created again by the import.
* Leaderboard: a loss that commits beside a win overwrites it with the row it read, so counters fall
  behind the predictions and a streak can survive a loss. While the transaction that set `definitionsEnsured`
  is open, others find no definitions and award nothing (achievements.ts:157-187); if it rolls back, nobody does until
  a restart.
* Leagues: an owner who left through a race with a transfer rejoins as a member; a former owner's
  delete or update that was checked before a transfer is still written; a recalculation that started before a
  departure lists the departed member again.
* Desk: a late list of an older filter replaces the newer one. Orders share one flag, so the end of one re-enables
  the buttons of another; a save that ends closes whatever dialog is open by then. The promise that a sync will not
  overwrite manual odds is not kept by a sync or bet that had read the event before it was detached
  (oddsSync.ts:118). A bulk import is `Promise.all` of creates (routes/admin.ts:559): a retry after a partial failure
  repeats events.
* Slip: a submission that fails in part keeps the singles that were placed on the slip, so the next submission places
  them again; one that succeeds clears selections added meanwhile.
* History: the button to load more can disappear while older rows exist, when rows are posted between
  the count and the rows of an answer; rows can be listed twice.
* Predictions page: a timer asks for the filter it was made with, late answers flip statuses back until
  the next poll, an error message stays over rows that were loaded since.
* Shell: an account without rights that signs in at the administrators' form is shown as signed in at once, so the
  guard takes it to the events before the form signs it out again; the message that it has no admin access is never
  seen. A sign-in or sign-out that ends after its page was left navigates all the same.
* Toasts: more than `MAX_VISIBLE_TOASTS` are visible when several are shown within ten milliseconds, as the loop
  over new achievements on the rewards page does.

## 4. What is proved

Every invariant and every safety property that a passing run checks is also stated by a theorem, for every
value of the constants that the named assumptions allow. Sets of users, bets, events, handlers, tabs, browsers
and the like are arbitrary, also infinite, except where a theorem says otherwise. The bounds of the runs
(`MaxVersion` and the like) are constants of the specifications, and the theorems hold for every value of them
(`MaxAge` must exceed what `PriceAge` allows, as ages are not counted beyond it).

Assumptions are those named in the modules (`BetIdsAssumption`, `PricingAssumption`, `CombinedPayoutAssumption`,
`BettingAssumption`, `RewardsAssumption`, `AllowanceAssumption`, `CredentialsAssumption`, `SessionsAssumption`,
`SettlementAssumption`, `OddsFeedAssumption`, `DeskAssumption`, `ScoresAssumption`, `LeaguesAssumption`,
`SlipAssumption`, `HistoryAssumption`, `PicksAssumption`, `ShellAssumption`, `ToastsAssumption`): ids of predictions and accumulators are disjoint, stakes and prices
are positive naturals, the payout of an accumulator is a natural number, null values differ from ids and rows, kinds of
requests are told apart, times and amounts are natural numbers, the members of a league are finitely many. The runs
evaluate them. What only one theorem needs is a hypothesis of that theorem and named with it below.

**Betting_proofs**

* `TypeCorrect == Spec => []TypeOK` - tables, ledgers and requests keep their types; in particular
  no balance is ever negative. Inductive by itself; the work is in showing that what a request
  carries, above all the accumulator table that it read earlier, has the type of the table.
* `PaidOnce == Spec => []PredictionsPaidOnce` - inductive on top of TypeOK. The point of the
  argument is that PredMoney ties status and ledger rows so tightly that the status alone
  tells a transaction what has been posted: a WON or CASHED_OUT prediction is never moved again,
  a PENDING one has been paid nothing, a REFUNDED one holds nothing. Each `Commit...Money` lemma
  shows that the rows posted for a prediction are the difference that its new status asks for, and
  that rows of accumulators in the same batch touch no prediction (`AccaRowsApart`).
* `NoBetOutlivesItsEvent == Spec => []NothingOpenOnFinished` - inductive on top of TypeOK.
  It holds for accumulator legs as well, in spite of the unlocked reads, because leg rows are updated on the
  current table by status.
* `PredictionsRefineBet == Spec => PredictionsAreBets` - the platform implements Bet for every
  prediction. PredMoney before and after a step fixes what is held and paid by the row alone, so a
  step is determined by how the status turns (`Turns`, one lemma per action). Two facts are needed
  besides: of a deleted row, which no longer says what was posted, no ledger row changes
  (`KeepsRows`), and every stake is positive (`StakesArePositive`, an invariant of its own), without
  which a reinstated bet could hold nothing.
* `BalancesAlwaysMatch` (`BalancesMatchLedgers`), for finitely many bets - the sum behind a balance is over the bets that a user
  owns now, so a bet that gains an owner must come without rows. The inductive invariant is therefore
  TypeOK, PredictionsPaidOnce (an absent prediction has no rows), `NothingForAbsent` (the same for accumulators) and
  `ViewsExist`: an accumulator that a transaction read as existing still exists, so that what it posts goes to
  an owner. Steps are sorted by what they post: a commit posts one batch to each ledger for bets
  that keep their owners; every other step posts nothing.

**Accumulators_proofs** - no transaction locks an accumulator, and yet these theorems have no hypotheses: they are about
every step of any number of overlapping requests, and name the steps that go wrong (section 3, accas).

* `AccumulatorsArePaidOnce` (`AccumulatorsPaidOnce`) - what a transaction read of an accumulator may be wrong at its
  commit, but not all of it: `LegHolds` says that the leg on the event it has locked and the stake are as it read them,
  since placing and the cleanup wait for that event's row and other transactions write other legs. `LocksApart` (no
  two transactions have locked one event) makes this inductive, `RowSound` says of a row that an absent one has no legs and
  any other a stake. What is posted then follows from the guards: a decision is written only if the accumulator is
  PENDING still; a reversal has no guard, and the one that finds the accumulator CANCELLED no more is `ReopensAgain`.
* `AccumulatorsRefineBet` (`AccumulatorsAreBets`) - from the same invariant. `AccaTurns` lists how a step may turn an accumulator,
  with the ledger rows that go with it, and each turn is a step of Bet or none.
* `AccumulatorsMatchLegs` (`AccumulatorMatchesLegs`) - a commit that is not `DecidedBlind` has the whole row as it read
  it. `LegsIn` of the row after the move is computed for each of the three functions, as are the odds that are left
  (`Odds`). What a row must match are its pending and won legs and the absence of lost ones, so the cleanup keeps the
  match unless it takes a leg that is pending or won.

**Account_proofs**

* `StockIsCounted`, `ShopNeverOversells`, `RedemptionsArePaidOnce` (`StockCountsItems`, `NeverOversold`,
  `RedemptionMoney`), finitely many redemptions - for any number of desks and limits that come and go. `CommitCancel` and
  `WriteFulfil` write without looking again (hazards rewards.ts:330 and :353), so the properties are about steps and
  leave out the answer of a request that was overtaken or outdated. `ShopInv` is what survives even that: redemptions
  refer to customers and rewards that exist, a reward that does not exist has neither limit nor items, and the points of a
  customer are what the rows of his redemptions leave. Each action changes the set of items held by at most one, and
  the counter with it; the check of `Redeem` is made on the counter, so that nothing is oversold while the counter is
  not behind the items. A redemption gains an owner and its debit in one step.
* `AllowanceStopsAtMaximum` (`AllowanceKeepsMaximum`) - inductive with the type invariant. `CreditBound` shows for each
  of the three cases of `CreditDue` that something is credited only up to the maximum, because the room is taken from the ledger's
  balance.
* `OnlyRepairsDrift` (`DriftOnlyByRepair`) - a posting and an accrual add the same amount to the balance and to one of the sums
  that drift is measured by.
* `AllowanceWithinEntitlement` (`AccrualWithinEntitlement`) - `AccrualInv`: the credits of a week up to a day are within the entitlement of
  that day for every day, not only for today, since a delayed call acts on the day before; and nothing was credited to a day
  after the one that the allowance row names (`CreditedUpTo`), so that a credit for k days is the first for these k days.
* `ReplacedLinkSetsNothing` (`ReplacedLinkIsDead`) - a password that is typed is no link's
  (`CredentialsAssumption`), so only `ResetCommit` sets one, and it fails when the row it marks is gone.
* `AccountTypeCorrect` (`AccountTypeOK`) - inductive by itself, part by part.

**Sessions_proofs**

* `RevokedSessionsStayDead` (`OldSessionsAreDead`) - the difficulty is a refresh that has read the row and not written yet,
  as it may bring back what a revocation deleted. `SessionInv` says of every request in a lane that the version it read
  is at most the present one, and that if it is the present one then it found no session or one signed in at it;
  the row itself has the present version or none (`RowOK`).
* `NoRefreshIsForgotten` (`FlagClearWhenQuiet`) - `FlagInv`: when `isRefreshing` is set, one of the tab's own
  requests is the refresh that set it. The property alone is not inductive, as it is silent while requests run.
* `SessionTypesHold` (`TypeOK`), finitely many lanes - the bound of the version is checked when a revocation is asked for and used when the
  server serves it, so types alone are not inductive. `VersionInv` counts the revocations on their way (`Revoking`):
  the version and their number never exceed `MaxVersion`.

**Settlement_proofs**

* `WorkerTypesHold` (`SettlementTypeOK`) - what the worker asks the provider for, and keeps the answer to, is about one sport.

**Season_proofs**

* `LeagueHasOneOwner`, `LeagueIsNeverOverfull` - `LockInv`: whoever joins or transfers holds the league's row lock, and what
  it read under the lock still holds when it writes; a departure, which takes no lock, only lowers the number of members.
* `StandingsAlwaysInOrder` (`StandingsInOrder`) - two arguments. `CountInv`: a result counts for a league after the joining that a recalculation read
  before it, and the week is read before the whole, so that what the week has of a
  user is at most what all time has. `GoneInv`: between deleting and writing, the rows deleted are exactly those
  of users outside the list that was read, and two recalculations never have deleted the same ones, so the rows
  written and those kept are one list. That ranks count from 1 without a gap is `RanksCount`: the
  rows before two different ones are not equally many, so ranks are an injection into 1..n and reach all of it.
* `PricesAreYoung` (`PriceAge`) - `AgeInv` bounds the age of what a request carries, of the cache and of the row, each by
  its own sum of TTL and lags; the bound for a bet follows from the one of the source it takes its price from.
* `EventIsImportedOnce` (`ImportedOnce`) - the flag of the process lets one import be under way, and what it
  found missing is missing until it creates it (`ImportInv`). A restart clears the flag and ends the import with it.
* `PageSavesWhatItShows` (`SavesWhatItShows`) - inductive with the types of the desk, whichever list lands over which rows.
* `WinsAreRewarded` (`AwardedByTheWin`) - `AwardInv`: at most one settlement has won, as it holds the user's row,
  and at most one has written, as it holds the leaderboard row; if the last check of a settlement that has won found
  the definitions, then its awards are all that the wins reach which it will commit, since no other win can commit
  in between.
* `NoBonusWithoutWins` (`BonusesNeedWins`) - `BonusInv`: s times the bonuses paid, plus the part of the current
  streak that is not paid for yet, is at most the wins; for the row and for what every settlement under way will make of it.
  The property alone says nothing of a streak about to complete.
* `SeasonTypeCorrect` (`SeasonTypeOK`) - from the invariants above, which contain the types of their parts.

**Pages_proofs**

* `SelectionsAreOwn` (`SlipStaysWithUser`) - the selections on the slip are those of the user whose key was loaded,
  and nobody picks before the effects of a change of user have run.
* `HistoryIsWhole` (`NothingSkipped`) - offsets count from the newest row of a ledger that grows, so a list can repeat rows; that it
  skips none is `HistoryInv`: the rows listed have no gap and reach as far down as the next offset does (`Covers`),
  an answer under way is a piece of the ledger as it was at some earlier size, and a ledger has one request
  under way (`OneRequest`), so the list has not changed since the offset was sent.
* `NoRedirectLoop` (`RedirectsEnd`) - a ranking: hops so far plus the redirects that can still follow from this place
  for this user (`Left`) never exceed one more than `Depth`. A query that is followed is shorter than the place that
  had it, and only a page, the root or the administrators' pages make a longer one (`PlaceInv`), once.
* `HeaderBelongs` (`HeaderIsTheUsers`) - loads that are not cancelled are loads for the user whose effect ran last.
* `ToastsLeave` (`NoToastIsStuck`) - inductive with the types, whatever older list a handler works on.
* `PagesTypeCorrect` (`PagesTypeOK`) - from the invariants above, with the rest of the slip and the predictions page.

**Sums_proofs** - `SumFunctionOnSet` of the community modules is a fold in an order that CHOOSE picks. `SumRecursion`
shows that the sum of a finite set of integers does not depend on the order and adds one element at a time; `SumAdds` states what the
other modules cite, and lemmas on equal, added, bounded and partly zero functions follow. The library's induction
theorems take a predicate as a parameter, which the provers cannot instantiate; they are replaced by rules
over a set of good cases (`NatRule`, `SetRule`), derived from well-foundedness.

In Account, Season and Pages the lemma `PartsMove` splits a step of the composition into a step of one part, so that
each invariant speaks of its part only.

Proving changed the models twice. The offset of `Request` in History was a CASE with overlapping arms, of which TLA+
does not say which is taken although TLC takes the first; it is an IF now, in the order of the code. And
`AllowanceAssumption` now says that a missing row differs from every row, which a set of rows with model values
leaves open.

## 5. What is model-checked only

On the instances of section 3 only hold the liveness properties: `EveryRequestEnds`, `ResultsAreSettled`,
`StaleAreCancelled`, `RunsEnd`, `DecidedIsShown`. Fairness is stated by ENABLED, which is out of the prover's reach.
That the steps which the properties of accumulators leave out do occur is shown by TLC: two of them by the
runs write_skew and deleted_leg, all three by leaving them out of the property.

Abstractions that the results rest on, besides those of section 2:

* Settlement takes events mapped to the provider; one without a mapping is settled by administrators only.
* Scores has the all-time row only: WEEKLY and MONTHLY rows are written by the same statement.
* Leagues has one league: limits per user count rows of several leagues, without a lock, and races pass them.
* Desk leaves out paging and other administrators' edits other than through the feed's writes.
* Pages assumes that React runs due effects before it renders the next change, at most one getMe under way, and one
  cash-out at a time of a prediction.

## 6. What is not modelled, and why

* Failed-login counting (`auth.ts`): its update runs in the transaction that the failure rolls back, so it has no
  effect to model.
* Validation schemas, rate limits, HTTP headers, the audit log, mail templates: they shrink inputs or write
  output that nothing reads back. Role checks take `isAdmin` from the access token and two administrators can
  demote each other (routes/admin.ts:657); user administration has no state beyond that.
* Invite codes: a fresh code changes who finds a league, not the league.
* The achievements other than for wins, and the weekly and monthly boards: the same statements as those modelled.
* LeagueDetailPage, LeaguesPage, RewardsPage, EventsPage, EventDetailPage, FootballPage, LeaderboardPage and the other
  administrators' pages: each shows what one request answered, with the late answers that PredictionsPage and
  Desk have and no timer. RewardsPage has one `redeemingId`, so another redemption's end re-enables a button.
* `prisma/seed.ts`, scripts, styles, static components and generated code: no behaviour at run time.
* Binary floating point in payouts (events.ts:789): payouts are taken as given by `CombinedPayout` and exact prices.
* Deadlocks between cashout and settlement (predictions.ts:373): PostgreSQL aborts one of the two, which is `Abort`.

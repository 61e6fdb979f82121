--------------------------- MODULE PredictionsPage ---------------------------
(***************************************************************************)
(* The page that lists a user's predictions while they are settled         *)
(* (PredictionsPage.tsx).  It asks again every minute as long as it shows  *)
(* a pending one; answers come late, out of order, or not at all, and a    *)
(* cash-out changes the list without asking.                               *)
(***************************************************************************)
EXTENDS Naturals

CONSTANTS
  Placed,     \* the predictions
  Filters,    \* the filters a user chooses from
  Results,    \* the statuses of a prediction that was settled or cancelled
  Loads,      \* identities of requests for the list: so many at a time
  NoFilter    \* no timer runs

ASSUME PicksAssumption ==
  /\ Filters \subseteq {"all", "PENDING", "WON", "LOST", "CASHED_OUT"} /\ "all" \in Filters
  /\ Results \subseteq {"WON", "LOST", "REFUNDED"}
  /\ NoFilter \notin Filters

VARIABLES
  server,     \* the status of each prediction
  listing,    \* whether the page is open, and on which tab
  filter,     \* the filter chosen
  listed,     \* the status of each prediction shown
  spinner,    \* singlesLoading
  error,      \* singlesError
  poll,       \* the filter that the timer asks for
  load,       \* the requests for the list
  cashing     \* the cash-out of each prediction: its step and the filter at the click

picksVars == <<server, listing, filter, listed, spinner, error, poll, load, cashing>>

Statuses == Results \cup {"PENDING", "CASHED_OUT"}

\* What a list says of each prediction.
Listings == [Placed -> Statuses \cup {"absent"}]

Nothing == [b \in Placed |-> "absent"]

NoLoad == [asks |-> NoFilter, silent |-> FALSE, read |-> FALSE, rows |-> Nothing]

NoCashout == [step |-> "none", filter |-> "all"]

PicksTypeOK ==
  /\ server \in [Placed -> Statuses]
  /\ listing \in {"closed", "singles", "accumulators"}
  /\ filter \in Filters /\ poll \in Filters \cup {NoFilter}
  /\ listed \in Listings
  /\ spinner \in BOOLEAN /\ error \in BOOLEAN
  /\ load \in [Loads -> [asks : Filters \cup {NoFilter}, silent : BOOLEAN, read : BOOLEAN,
                         rows : Listings]]
  /\ cashing \in [Placed -> [step : {"none", "quoted", "sent", "left", "done", "refused"},
                             filter : Filters]]

PicksInit ==
  /\ server = [b \in Placed |-> "PENDING"]
  /\ listing = "closed" /\ filter = "all" /\ poll = NoFilter
  /\ listed = Nothing /\ spinner = FALSE /\ error = FALSE
  /\ load = [c \in Loads |-> NoLoad]
  /\ cashing = [b \in Placed |-> NoCashout]

-----------------------------------------------------------------------------
(* The server *)

\* An event is settled, cancelled or restored.
Decide(b, s) ==
  /\ \/ server[b] = "PENDING" /\ s \in Results
     \/ server[b] = "REFUNDED" /\ s = "PENDING"
  /\ server' = [server EXCEPT ![b] = s]
  /\ UNCHANGED <<listing, filter, listed, spinner, error, poll, load, cashing>>

RowsOf(f) ==
  [b \in Placed |-> IF f \in {"all", server[b]} THEN server[b] ELSE "absent"]

GetByUser(c) ==
  /\ load[c].asks # NoFilter /\ ~load[c].read
  /\ load' = [load EXCEPT ![c].read = TRUE, ![c].rows = RowsOf(load[c].asks)]
  /\ UNCHANGED <<server, listing, filter, listed, spinner, error, poll, cashing>>

\* A cash-out pays only what is pending; a page that was left hears nothing of it.
CashOut(b) ==
  /\ cashing[b].step \in {"sent", "left"}
  /\ \E paid \in {server[b] = "PENDING", FALSE} :
       /\ server' = IF paid THEN [server EXCEPT ![b] = "CASHED_OUT"] ELSE server
       /\ cashing' = IF cashing[b].step = "left" THEN [cashing EXCEPT ![b] = NoCashout]
                     ELSE [cashing EXCEPT ![b].step = IF paid THEN "done" ELSE "refused"]
  /\ UNCHANGED <<listing, filter, listed, spinner, error, poll, load>>

-----------------------------------------------------------------------------
(* The page *)

HasPending(l) == \E b \in Placed : l[b] = "PENDING"

\* Mutant: the timer runs for the unfiltered list only.
PollForAll(l) ==
  IF filter = "all" /\ HasPending(l) THEN filter ELSE NoFilter

\* The timer is set when the first pending prediction is shown, for the filter of that moment.
PollAfter(l) ==
  IF ~HasPending(l) THEN NoFilter ELSE IF HasPending(listed) THEN poll ELSE filter

ShowList(l) == listed' = l /\ poll' = PollAfter(l)

\* A card that is not shown for a while comes back without its quote.
Hidden(cards) ==
  [b \in Placed |-> IF b \in cards /\ cashing[b].step = "quoted" THEN NoCashout ELSE cashing[b]]

AskFor(c, f, silent) ==
  /\ load[c] = NoLoad
  /\ load' = [load EXCEPT ![c] = [NoLoad EXCEPT !.asks = f, !.silent = silent]]
  /\ spinner' = (spinner \/ ~silent) /\ error' = FALSE
  /\ cashing' = IF silent THEN cashing ELSE Hidden(Placed)

\* What a page that is left asked for goes on without it.
Reset ==
  /\ filter' = "all" /\ listed' = Nothing /\ poll' = NoFilter /\ error' = FALSE
  /\ cashing' = [b \in Placed |-> IF cashing[b].step \in {"sent", "left"}
                                  THEN [NoCashout EXCEPT !.step = "left"] ELSE NoCashout]
  /\ UNCHANGED server

OpenPicks(c) ==
  /\ Reset /\ listing' = "singles" /\ spinner' = TRUE
  /\ load' = [[d \in Loads |-> NoLoad] EXCEPT ![c].asks = "all"]

ClosePicks ==
  /\ listing # "closed" /\ listing' = "closed"
  /\ Reset /\ spinner' = FALSE
  /\ load' = [c \in Loads |-> NoLoad]

\* The filter chosen is asked for; the timer keeps its own.
ChooseFilter(f, c) ==
  /\ listing = "singles" /\ f # filter /\ filter' = f /\ AskFor(c, f, FALSE)
  /\ UNCHANGED <<server, listing, listed, poll>>

ShowSingles(c) ==
  /\ listing = "accumulators" /\ listing' = "singles" /\ AskFor(c, filter, FALSE)
  /\ UNCHANGED <<server, filter, listed, poll>>

ShowAccumulators ==
  /\ listing = "singles" /\ listing' = "accumulators" /\ cashing' = Hidden(Placed)
  /\ UNCHANGED <<server, filter, listed, spinner, error, poll, load>>

\* After an error the user asks again.
RetryLoad(c) ==
  /\ listing = "singles" /\ error /\ ~spinner /\ AskFor(c, filter, FALSE)
  /\ UNCHANGED <<server, listing, filter, listed, poll>>

Poll(c) ==
  /\ poll # NoFilter /\ AskFor(c, poll, TRUE)
  /\ UNCHANGED <<server, listing, filter, listed, poll>>

EndLoad(c) ==
  /\ load' = [load EXCEPT ![c] = NoLoad]
  /\ spinner' = (spinner /\ load[c].silent)
  /\ UNCHANGED <<server, listing, filter>>

\* The answer is shown whichever filter is chosen by now, if no error is.
Loaded(c) ==
  /\ load[c].read /\ ShowList(load[c].rows) /\ EndLoad(c)
  /\ cashing' = Hidden({b \in Placed : load[c].rows[b] # "PENDING"})
  /\ UNCHANGED error

LoadFails(c) ==
  /\ load[c] # NoLoad /\ EndLoad(c)
  /\ error' = (error \/ ~load[c].silent)
  /\ cashing' = IF load[c].silent THEN cashing ELSE Hidden(Placed)
  /\ UNCHANGED <<listed, poll>>

-----------------------------------------------------------------------------
(* The card of a prediction.  A card mounted anew lets the user send a     *)
(* second cash-out while the first is under way; one at a time is          *)
(* modelled.                                                               *)

CardShown(b) == listing = "singles" /\ ~spinner /\ ~error /\ listed[b] = "PENDING"

CheckValue(b) ==
  /\ CardShown(b) /\ cashing[b].step = "none" /\ server[b] = "PENDING"
  /\ cashing' = [cashing EXCEPT ![b].step = "quoted"]
  /\ UNCHANGED <<server, listing, filter, listed, spinner, error, poll, load>>

SendCashout(b) ==
  /\ CardShown(b) /\ cashing[b].step = "quoted"
  /\ cashing' = [cashing EXCEPT ![b] = [step |-> "sent", filter |-> filter]]
  /\ UNCHANGED <<server, listing, filter, listed, spinner, error, poll, load>>

\* The row is changed, or dropped if the filter at the click does not show it.
CashedOut(b) ==
  IF listed[b] = "absent" THEN listed
  ELSE [listed EXCEPT ![b] =
          IF cashing[b].filter \in {"all", "CASHED_OUT"} THEN "CASHED_OUT" ELSE "absent"]

CashoutAnswered(b) ==
  /\ \/ cashing[b].step = "done" /\ ShowList(CashedOut(b))
     \/ cashing[b].step = "refused" /\ UNCHANGED <<listed, poll>>
  /\ cashing' = [cashing EXCEPT ![b] = NoCashout]
  /\ UNCHANGED <<server, listing, filter, spinner, error, load>>

PicksNext ==
  \/ \E b \in Placed :
       \/ \E s \in Statuses : Decide(b, s)
       \/ CashOut(b) \/ CheckValue(b) \/ SendCashout(b) \/ CashoutAnswered(b)
  \/ ClosePicks \/ ShowAccumulators
  \/ \E c \in Loads :
       \/ \E f \in Filters : ChooseFilter(f, c)
       \/ OpenPicks(c) \/ ShowSingles(c) \/ RetryLoad(c) \/ Poll(c)
       \/ GetByUser(c) \/ Loaded(c) \/ LoadFails(c)

\* The timer goes off, the server answers, and not every answer to a request that is repeated is
\* lost.
PicksFairness ==
  /\ WF_picksVars(\E c \in Loads : Poll(c))
  /\ \A c \in Loads : SF_picksVars(GetByUser(c)) /\ SF_picksVars(Loaded(c))

(* A prediction that is decided for good does not stay pending on an open  *)
(* page, whichever filter the timer asks for and however late answers of   *)
(* before arrive (PredictionsPage.tsx:43-60).                              *)
DecidedIsShown ==
  \A b \in Placed : <>[](server[b] # "PENDING") => <>[](listed[b] # "PENDING")

=============================================================================

------------------------------- MODULE History -------------------------------
(***************************************************************************)
(* The ledgers of one user as two pages list them, a page of rows at a     *)
(* time and the newest first (WalletPage.tsx, TransactionHistoryPage.tsx,  *)
(* ledgerCore.ts getHistory).  Rows are posted while the pages read, and   *)
(* what they show is put together from answers of different times.         *)
(***************************************************************************)
EXTENDS Naturals, Sequences, FiniteSets

CONSTANTS
  Calls,      \* identities of requests under way
  PageSize,   \* rows of one answer
  MaxPosted,  \* a bound on the rows of a ledger
  Unread      \* a part of an answer that was not read yet

ASSUME HistoryAssumption == PageSize \in Nat \ {0} /\ MaxPosted \in Nat

VARIABLES
  posted,     \* the rows of each ledger, numbered as they were posted
  place,      \* the page that is open
  tab,        \* its ledger in view
  list,       \* the page's state for each ledger
  call        \* the requests

historyVars == <<posted, place, tab, list, call>>

Tabs == {"tokens", "points"}

Lists == [rows : Seq(1 .. MaxPosted), total : 0 .. MaxPosted, offset : Nat, more : BOOLEAN,
          loading : BOOLEAN, loadingMore : BOOLEAN, failed : BOOLEAN, asked : BOOLEAN]

EmptyList == [rows |-> <<>>, total |-> 0, offset |-> 0, more |-> FALSE,
              loading |-> FALSE, loadingMore |-> FALSE, failed |-> FALSE, asked |-> FALSE]

NoCall == [kind |-> "none", tab |-> "tokens", offset |-> 0, listed |-> 0,
           rows |-> Unread, total |-> Unread]

HistoryTypeOK ==
  /\ posted \in [Tabs -> 0 .. MaxPosted]
  /\ place \in {"elsewhere", "wallet", "history"} /\ tab \in Tabs
  /\ list \in [Tabs -> Lists]
  /\ \A c \in Calls :
       /\ call[c].kind \in {"none", "first", "more"} /\ call[c].tab \in Tabs
       /\ call[c].offset \in Nat /\ call[c].listed \in Nat
       /\ call[c].rows = Unread \/ call[c].rows \in Seq(1 .. MaxPosted)
       /\ call[c].total = Unread \/ call[c].total \in 0 .. MaxPosted

-----------------------------------------------------------------------------
(* The server: the rows and their number are two statements in any order. *)

Post(t) ==
  /\ posted[t] < MaxPosted
  /\ posted' = [posted EXCEPT ![t] = @ + 1]
  /\ UNCHANGED <<place, tab, list, call>>

RowsFrom(t, offset) ==
  LET left == IF posted[t] > offset THEN posted[t] - offset ELSE 0
  IN  [k \in 1 .. (IF left < PageSize THEN left ELSE PageSize) |-> left - k + 1]

ListTransactions(c) ==
  /\ call[c].kind # "none" /\ call[c].rows = Unread
  /\ call' = [call EXCEPT ![c].rows = RowsFrom(call[c].tab, call[c].offset)]
  /\ UNCHANGED <<posted, place, tab, list>>

\* Mutant: one row too many is counted.
CountOneMore(c) ==
  /\ call[c].kind # "none" /\ call[c].total = Unread
  /\ call' = [call EXCEPT ![c].total = posted[call[c].tab] + 1]
  /\ UNCHANGED <<posted, place, tab, list>>

CountTransactions(c) ==
  /\ call[c].kind # "none" /\ call[c].total = Unread
  /\ call' = [call EXCEPT ![c].total = posted[call[c].tab]]
  /\ UNCHANGED <<posted, place, tab, list>>

Read(c) == call[c].kind # "none" /\ call[c].rows # Unread /\ call[c].total # Unread

-----------------------------------------------------------------------------
(* The pages ask. *)

\* A request for the first page of a ledger, or for the one after the rows listed.
Request(kind, t) ==
  [NoCall EXCEPT !.kind = kind, !.tab = t, !.listed = Len(list[t].rows),
     !.offset = IF kind = "first" THEN 0
                ELSE IF place = "wallet" THEN list[t].offset ELSE Len(list[t].rows)]

Send(c, kind, t) == call[c].kind = "none" /\ call' = [call EXCEPT ![c] = Request(kind, t)]

\* A page opens; answers to the one that was left go nowhere.
Open(p, c) ==
  /\ place' = p /\ tab' = "tokens"
  /\ list' = [t \in Tabs |-> [EmptyList EXCEPT !.loading = (t = "tokens")]]
  /\ call' = [d \in Calls |-> IF d = c THEN [NoCall EXCEPT !.kind = "first"] ELSE NoCall]
  /\ UNCHANGED posted

StartLoading(t) ==
  list' = [list EXCEPT ![t].loading = TRUE, ![t].failed = FALSE, ![t].asked = TRUE]

\* The wallet asks for points while it lists none, the history only once.
MustLoad(t) ==
  /\ t = "points" /\ ~list[t].loading
  /\ IF place = "wallet" THEN list[t].rows = <<>> ELSE ~list[t].asked

SwitchTab(t, c) ==
  /\ place # "elsewhere" /\ t # tab /\ tab' = t
  /\ IF MustLoad(t) THEN Send(c, "first", t) /\ StartLoading(t) ELSE UNCHANGED <<call, list>>
  /\ UNCHANGED <<posted, place>>

\* The button of the error message.
Retry(c) ==
  /\ list[tab].failed /\ ~list[tab].loading
  /\ Send(c, "first", tab) /\ StartLoading(tab)
  /\ UNCHANGED <<posted, place, tab>>

HasMore(t) ==
  IF place = "wallet" THEN list[t].more ELSE Len(list[t].rows) < list[t].total

\* Mutant: the button stays enabled while rows are loading.
MayLoadMoreTwice(t) ==
  ~list[t].loading /\ ~list[t].failed /\ list[t].rows # <<>> /\ HasMore(t)

\* The button below the rows is shown, and is enabled.
MayLoadMore(t) ==
  /\ ~list[t].loading /\ ~list[t].failed /\ list[t].rows # <<>> /\ HasMore(t)
  /\ ~list[t].loadingMore

LoadMore(c) ==
  /\ MayLoadMore(tab)
  /\ Send(c, "more", tab)
  /\ list' = [list EXCEPT ![tab].loadingMore = TRUE]
  /\ UNCHANGED <<posted, place, tab>>

-----------------------------------------------------------------------------
(* The answers. *)

Answered(c, t, l) ==
  /\ call' = [call EXCEPT ![c] = NoCall]
  /\ list' = [list EXCEPT ![t] = l]
  /\ UNCHANGED <<posted, place, tab>>

FirstLoaded(c) ==
  LET t == call[c].tab IN
  /\ Read(c) /\ call[c].kind = "first"
  /\ Answered(c, t, [list[t] EXCEPT !.rows = call[c].rows, !.total = call[c].total,
                      !.offset = PageSize, !.more = Len(call[c].rows) < call[c].total,
                      !.loading = FALSE])

\* Whether there is more is computed from the rows that were listed at the click.
MoreLoaded(c) ==
  LET t == call[c].tab IN
  /\ Read(c) /\ call[c].kind = "more"
  /\ Answered(c, t, [list[t] EXCEPT !.rows = @ \o call[c].rows,
                      !.total = IF place = "wallet" THEN @ ELSE call[c].total,
                      !.offset = @ + PageSize,
                      !.more = call[c].listed + Len(call[c].rows) < call[c].total,
                      !.loadingMore = FALSE])

\* The wallet's points are left as they are.
FirstFailed(c) ==
  LET t == call[c].tab IN
  /\ call[c].kind = "first"
  /\ Answered(c, t, [list[t] EXCEPT !.loading = FALSE,
                                    !.failed = ~(place = "wallet" /\ t = "points")])

MoreFailed(c) ==
  /\ call[c].kind = "more"
  /\ Answered(c, call[c].tab, [list[call[c].tab] EXCEPT !.loadingMore = FALSE])

HistoryInit ==
  /\ posted = [t \in Tabs |-> 0]
  /\ place = "elsewhere" /\ tab = "tokens"
  /\ list = [t \in Tabs |-> EmptyList]
  /\ call = [c \in Calls |-> NoCall]

HistoryNext ==
  \/ \E t \in Tabs : Post(t)
  \/ \E c \in Calls :
       \/ \E p \in {"wallet", "history"} : Open(p, c)
       \/ \E t \in Tabs : SwitchTab(t, c)
       \/ Retry(c) \/ LoadMore(c)
       \/ ListTransactions(c) \/ CountTransactions(c)
       \/ FirstLoaded(c) \/ MoreLoaded(c) \/ FirstFailed(c) \/ MoreFailed(c)
=============================================================================

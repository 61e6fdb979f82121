-------------------------------- MODULE Desk --------------------------------
(***************************************************************************)
(* The page on which an administrator manages events (AdminEventsPage.tsx) *)
(* while the odds sync, the timers and other administrators change them.   *)
(* Every order loads the list again with the filter of its click, lists    *)
(* come late and out of order, and orders share the flags that disable     *)
(* their buttons.                                                          *)
(***************************************************************************)
EXTENDS Naturals

CONSTANTS
  Fixtures,   \* the events
  Chips,      \* the status filters, "all" among them
  Orders,     \* identities of orders under way
  Sheets,     \* the texts pasted for an import, NoSheet among them
  NoSheet,    \* an empty text, or no preview
  NoFixture,
  Readings,   \* identities of the requests that the page itself makes for the list
  MaxWrites   \* a bound on how often the odds of an event are written

ASSUME DeskAssumption ==
  /\ "all" \in Chips /\ NoSheet \in Sheets
  /\ NoFixture \notin Fixtures /\ Readings \cap Orders = {}
  /\ MaxWrites \in Nat

VARIABLES
  fixture,    \* Event: the status, and how often its odds were written
  linked,     \* the events whose odds the provider is asked for
  priced,     \* the events whose odds a sync or a bet is fetching
  chip,       \* statusFilter
  table,      \* the events listed, as they were read
  draft,      \* inlineOddsDraft of each row: the odds it was made from, whether one was typed
  awaited,    \* loading
  broken,     \* error
  fetched,    \* the requests for the list
  order,      \* the requests for something else
  busy,       \* actionLoading, inlineOddsLoadingId, editorLoading and bulkLoading
  dialog,     \* what lies over the page
  preview     \* bulkPasteText, bulkPreview

deskVars == <<fixture, linked, priced, chip, table, draft, awaited, broken, fetched, order, busy,
              dialog, preview>>
serverVars == <<fixture, linked, priced>>
listVars == <<chip, table, awaited, broken, fetched>>

EventStates == [status : {"OPEN", "LOCKED", "SETTLED", "CANCELLED"}, odds : 0 .. MaxWrites]

Unlisted == [status |-> "absent", odds |-> 0]

Tables == [Fixtures -> EventStates \cup {Unlisted}]

Untouched == [odds |-> 0, typed |-> FALSE]

NoRead == [asks |-> "none", done |-> FALSE, rows |-> [e \in Fixtures |-> Unlisted]]

NoOrder == [kind |-> "none", of |-> NoFixture, chip |-> "all", step |-> "none"]

RowKinds == {"lock", "cancel", "uncancel", "settle"}

\* Which of the flags an order of each kind sets.
Flag(kind) == IF kind \in RowKinds THEN "action" ELSE kind

Flags == {"action", "save", "edit", "import"}

NoDialog == [kind |-> "none", of |-> NoFixture]

DeskTypeOK ==
  /\ fixture \in [Fixtures -> EventStates] /\ linked \subseteq Fixtures /\ priced \subseteq Fixtures
  /\ chip \in Chips /\ table \in Tables
  /\ draft \in [Fixtures -> [odds : 0 .. MaxWrites, typed : BOOLEAN]]
  /\ awaited \in BOOLEAN /\ broken \in BOOLEAN
  /\ fetched \in [Orders \cup Readings ->
                    [asks : Chips \cup {"none"}, done : BOOLEAN, rows : Tables]]
  /\ order \in [Orders -> [kind : RowKinds \cup Flags \cup {"none"},
                           of : Fixtures \cup {NoFixture}, chip : Chips,
                           step : {"none", "sent", "done", "refused", "reload"}]]
  /\ busy \in [Flags -> Fixtures \cup {NoFixture, "new"}]
  /\ dialog \in [kind : {"none", "settle", "edit", "import"}, of : Fixtures \cup {NoFixture}]
  /\ preview \in [text : Sheets, shown : Sheets]

DeskInit ==
  /\ fixture = [e \in Fixtures |-> [status |-> "OPEN", odds |-> 0]]
  /\ linked = Fixtures /\ priced = {} /\ chip = "all"
  /\ table = [e \in Fixtures |-> Unlisted] /\ draft = [e \in Fixtures |-> Untouched]
  /\ awaited = TRUE /\ broken = FALSE
  /\ \E r \in Readings :
       fetched = [[s \in Orders \cup Readings |-> NoRead] EXCEPT ![r].asks = "all"]
  /\ order = [o \in Orders |-> NoOrder]
  /\ busy = [f \in Flags |-> NoFixture]
  /\ dialog = NoDialog /\ preview = [text |-> NoSheet, shown |-> NoSheet]

-----------------------------------------------------------------------------
(* The server.  Other administrators, the settlement worker and the timers *)
(* give the same orders as the page does, but for the prices.              *)

Moves == {<<"lock", "OPEN", "LOCKED">>, <<"settle", "OPEN", "SETTLED">>,
          <<"settle", "LOCKED", "SETTLED">>, <<"cancel", "OPEN", "CANCELLED">>,
          <<"cancel", "LOCKED", "CANCELLED">>, <<"uncancel", "CANCELLED", "OPEN">>,
          <<"uncancel", "CANCELLED", "LOCKED">>}

Decided(e) ==
  /\ \E m \in Moves : /\ fixture[e].status = m[2]
                      /\ fixture' = [fixture EXCEPT ![e].status = m[3]]
  /\ UNCHANGED <<linked, priced, listVars, draft, order, busy, dialog, preview>>

\* The sync, or a bet, picks a linked event and asks the provider for its odds.
FetchPrices(e) ==
  /\ e \in linked /\ fixture[e].status \in {"OPEN", "LOCKED"} /\ e \notin priced
  /\ priced' = priced \cup {e}
  /\ UNCHANGED <<fixture, linked, listVars, draft, order, busy, dialog, preview>>

\* They are written by the event's id, whatever became of its link.
StorePrices(e) ==
  /\ e \in priced /\ fixture[e].odds < MaxWrites
  /\ priced' = priced \ {e}
  /\ fixture' = [fixture EXCEPT ![e].odds = @ + 1]
  /\ UNCHANGED <<linked, listVars, draft, order, busy, dialog, preview>>

\* Only a live event is edited; the form may leave the link as it is, an inline price cuts it.
Edited(o) ==
  LET e == order[o].of IN
  /\ fixture[e].status \in {"OPEN", "LOCKED"} /\ fixture[e].odds < MaxWrites
  /\ fixture' = [fixture EXCEPT ![e].odds = @ + 1]
  /\ \/ linked' = linked \ {e}
     \/ order[o].kind = "edit" /\ UNCHANGED linked

Executed(o) ==
  \/ order[o].of = NoFixture /\ UNCHANGED <<fixture, linked>>
  \/ order[o].kind \in {"save", "edit"} /\ order[o].of # NoFixture /\ Edited(o)
  \/ \E m \in Moves : /\ m[1] = order[o].kind /\ fixture[order[o].of].status = m[2]
                      /\ fixture' = [fixture EXCEPT ![order[o].of].status = m[3]]
                      /\ UNCHANGED linked

\* An order may be refused, or carried out and its answer lost.
Execute(o) ==
  /\ order[o].step = "sent"
  /\ \/ Executed(o) /\ \E s \in {"done", "refused"} : order' = [order EXCEPT ![o].step = s]
     \/ UNCHANGED <<fixture, linked>> /\ order' = [order EXCEPT ![o].step = "refused"]
  /\ UNCHANGED <<priced, listVars, draft, busy, dialog, preview>>

EventsOf(c) == [e \in Fixtures |-> IF c \in {"all", fixture[e].status} THEN fixture[e] ELSE Unlisted]

ReadEvents(r) ==
  /\ fetched[r].asks # "none" /\ ~fetched[r].done
  /\ fetched' = [fetched EXCEPT ![r].done = TRUE, ![r].rows = EventsOf(fetched[r].asks)]
  /\ UNCHANGED <<serverVars, chip, table, draft, awaited, broken, order, busy, dialog, preview>>

-----------------------------------------------------------------------------
(* The list *)

\* A spinner or an error replaces the rows, and what was typed there is gone.
Shown(e) == ~awaited /\ ~broken /\ table[e] # Unlisted

Clear == dialog = NoDialog

LoadData(r, c) ==
  /\ fetched' = [fetched EXCEPT ![r] = [NoRead EXCEPT !.asks = c]]
  /\ awaited' = TRUE /\ broken' = FALSE
  /\ draft' = [e \in Fixtures |-> Untouched]

ChooseChip(c, r) ==
  /\ Clear /\ c # chip /\ chip' = c
  /\ fetched[r] = NoRead /\ LoadData(r, c)
  /\ UNCHANGED <<serverVars, table, order, busy, dialog, preview>>

RetryList(r) ==
  /\ Clear /\ broken /\ fetched[r] = NoRead /\ LoadData(r, chip)
  /\ UNCHANGED <<serverVars, chip, table, order, busy, dialog, preview>>

\* Mutant: a row that stays on the page keeps its draft.
DraftsKept(rows) ==
  [e \in Fixtures |-> IF broken THEN Untouched
                      ELSE IF Shown(e) /\ rows[e] # Unlisted THEN draft[e]
                      ELSE [odds |-> rows[e].odds, typed |-> FALSE]]

\* Every row that is shown begins with the odds it was read with, one that was shown before too.
Drafts(rows) ==
  [e \in Fixtures |-> IF broken THEN Untouched ELSE [odds |-> rows[e].odds, typed |-> FALSE]]

\* finally: the flag is cleared, whichever order set it last.
Ended(o) ==
  /\ order' = [order EXCEPT ![o] = NoOrder]
  /\ busy' = [busy EXCEPT ![Flag(order[o].kind)] = NoFixture]

ListEnds(r) ==
  /\ fetched' = [fetched EXCEPT ![r] = NoRead] /\ awaited' = FALSE
  /\ IF r \in Orders THEN Ended(r) ELSE UNCHANGED <<order, busy>>
  /\ UNCHANGED <<serverVars, chip, dialog, preview>>

\* Whichever filter is chosen by now.
ListAnswered(r) ==
  /\ fetched[r].done /\ ListEnds(r)
  /\ table' = fetched[r].rows /\ draft' = Drafts(fetched[r].rows)
  /\ UNCHANGED broken

ListFails(r) ==
  /\ fetched[r].asks # "none" /\ ListEnds(r)
  /\ broken' = TRUE /\ draft' = [e \in Fixtures |-> Untouched]
  /\ UNCHANGED table

-----------------------------------------------------------------------------
(* The orders *)

SendOrder(o, kind, e, mark) ==
  /\ order[o] = NoOrder
  /\ order' = [order EXCEPT ![o] = [kind |-> kind, of |-> e, chip |-> chip, step |-> "sent"]]
  /\ busy' = [busy EXCEPT ![Flag(kind)] = mark]
  /\ UNCHANGED <<serverVars, listVars, draft, dialog, preview>>

Offered == {<<"lock", "OPEN">>, <<"cancel", "OPEN">>, <<"cancel", "LOCKED">>,
            <<"uncancel", "CANCELLED">>}

GiveOrder(o, kind, e) ==
  /\ Clear /\ Shown(e) /\ <<kind, table[e].status>> \in Offered
  /\ busy["action"] # e /\ SendOrder(o, kind, e, e)

Editable(e) == Shown(e) /\ table[e].status \in {"OPEN", "LOCKED"}

TypePrice(e) ==
  /\ Clear /\ Editable(e) /\ draft' = [draft EXCEPT ![e].typed = TRUE]
  /\ UNCHANGED <<serverVars, listVars, order, busy, dialog, preview>>

ResetPrices(e) ==
  /\ Clear /\ Editable(e) /\ draft[e].typed /\ busy["save"] # e
  /\ draft' = [draft EXCEPT ![e] = [odds |-> table[e].odds, typed |-> FALSE]]
  /\ UNCHANGED <<serverVars, listVars, order, busy, dialog, preview>>

\* The prices that were not typed are sent as well.
SavePrices(o, e) ==
  /\ Clear /\ Editable(e) /\ draft[e].typed
  /\ busy["save"] # e /\ SendOrder(o, "save", e, e)

OpenDialog(d) ==
  /\ Clear /\ dialog' = d
  /\ UNCHANGED <<serverVars, listVars, draft, order, busy, preview>>

OpenSettle(e) ==
  /\ Shown(e) /\ table[e].status = "LOCKED" /\ busy["action"] # e
  /\ OpenDialog([kind |-> "settle", of |-> e])

OpenEditor(e) ==
  (e # NoFixture => Editable(e)) /\ OpenDialog([kind |-> "edit", of |-> e])

OpenImport == OpenDialog([kind |-> "import", of |-> NoFixture])

CloseDialog ==
  /\ ~Clear /\ dialog' = NoDialog
  /\ preview' = [text |-> NoSheet, shown |-> NoSheet]
  /\ UNCHANGED <<serverVars, listVars, draft, order, busy>>

Paste(t) ==
  /\ dialog.kind = "import" /\ preview' = [text |-> t, shown |-> NoSheet]
  /\ UNCHANGED <<serverVars, listVars, draft, order, busy, dialog>>

Preview ==
  /\ dialog.kind = "import" /\ preview.text # NoSheet
  /\ preview' = [preview EXCEPT !.shown = preview.text]
  /\ UNCHANGED <<serverVars, listVars, draft, order, busy, dialog>>

ConfirmSettle(o) ==
  /\ dialog.kind = "settle" /\ busy["action"] # dialog.of
  /\ SendOrder(o, "settle", dialog.of, dialog.of)

SubmitEditor(o) ==
  /\ dialog.kind = "edit" /\ busy["edit"] = NoFixture /\ SendOrder(o, "edit", dialog.of, "new")

Import(o) ==
  /\ dialog.kind = "import" /\ preview.shown # NoSheet
  /\ busy["import"] = NoFixture /\ SendOrder(o, "import", NoFixture, "new")

\* Its dialog closes, whatever it is about by now, and the list is loaded with the filter of the
\* click.
OrderDone(o) ==
  /\ order[o].step = "done"
  /\ order' = [order EXCEPT ![o].step = "reload"]
  /\ IF dialog.kind = order[o].kind
       THEN dialog' = NoDialog /\ preview' = [text |-> NoSheet, shown |-> NoSheet]
       ELSE UNCHANGED <<dialog, preview>>
  /\ LoadData(o, order[o].chip)
  /\ UNCHANGED <<serverVars, chip, table, busy>>

OrderRefused(o) ==
  /\ order[o].step = "refused" /\ Ended(o)
  /\ UNCHANGED <<serverVars, listVars, draft, dialog, preview>>

DeskNext ==
  \/ \E e \in Fixtures :
       \/ Decided(e) \/ FetchPrices(e) \/ StorePrices(e)
       \/ TypePrice(e) \/ ResetPrices(e) \/ OpenSettle(e)
  \/ \E e \in Fixtures \cup {NoFixture} : OpenEditor(e)
  \/ \E r \in Orders \cup Readings : ReadEvents(r) \/ ListAnswered(r) \/ ListFails(r)
  \/ \E r \in Readings : RetryList(r) \/ \E c \in Chips : ChooseChip(c, r)
  \/ \E o \in Orders :
       \/ \E e \in Fixtures : SavePrices(o, e) \/ \E kind \in RowKinds : GiveOrder(o, kind, e)
       \/ ConfirmSettle(o) \/ SubmitEditor(o) \/ Import(o)
       \/ Execute(o) \/ OrderDone(o) \/ OrderRefused(o)
  \/ OpenImport \/ CloseDialog \/ Preview
  \/ \E t \in Sheets : Paste(t)
=============================================================================

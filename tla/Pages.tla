-------------------------------- MODULE Pages --------------------------------
(***************************************************************************)
(* Five parts of the web application that keep state of their own in a     *)
(* browser while answers of different age arrive: the bet slip and the     *)
(* user shown, the pages that list the ledgers, the page that lists the    *)
(* predictions, the frame with its routes, forms and header, and the       *)
(* notifications.  They share no state.                                    *)
(***************************************************************************)
EXTENDS Slip, History, PredictionsPage, Shell, Toasts

pagesVars == <<slipVars, historyVars, picksVars, shellVars, toastVars>>

PagesTypeOK == SlipTypeOK /\ HistoryTypeOK /\ PicksTypeOK /\ ShellTypeOK /\ ToastsTypeOK

Init == SlipInit /\ HistoryInit /\ PicksInit /\ ShellInit /\ ToastsInit

Next ==
  \/ SlipNext /\ UNCHANGED <<historyVars, picksVars, shellVars, toastVars>>
  \/ HistoryNext /\ UNCHANGED <<slipVars, picksVars, shellVars, toastVars>>
  \/ PicksNext /\ UNCHANGED <<slipVars, historyVars, shellVars, toastVars>>
  \/ ShellNext /\ UNCHANGED <<slipVars, historyVars, picksVars, toastVars>>
  \/ ToastsNext /\ UNCHANGED <<slipVars, historyVars, picksVars, shellVars>>

Spec == Init /\ [][Next]_pagesVars /\ PicksFairness

-----------------------------------------------------------------------------

(* What a user put on the slip is never stored under another user's key,   *)
(* though the user shown changes under the slip: by signing in or out, by  *)
(* an answer for somebody who has left, by a page opened again before its  *)
(* effects ran (BetSlipContext.tsx:68-95).                                 *)
SlipStaysWithUser == \A k \in Keys : \A p \in saved[k].picks : p.by = k

(* The rows listed go on without a gap from the newest one shown, however  *)
(* many are posted between the pages of answers that make up the list      *)
(* (WalletPage.tsx:93-139, TransactionHistoryPage.tsx:60-88).  Rows may be *)
(* listed twice.                                                           *)
NothingSkipped ==
  \A t \in Tabs :
    LET shownRows == {list[t].rows[k] : k \in DOMAIN list[t].rows}
    IN  \A i \in shownRows : i .. Head(list[t].rows) \subseteq shownRows

(* A redirect leads to a page in the end: the guards send nobody round in  *)
(* a circle, whoever is or is no longer signed in.  Each place that an     *)
(* address nests in its query costs one redirect at most, and the last one *)
(* two more if no route knows it, also when the address has become the     *)
(* redirect of a page to sign in (App.tsx:45-151, 278).                    *)
RedirectsEnd == hops <= Depth + 1

(* Once the header's effect has run for the user shown and no load of his  *)
(* is under way, the number in the header is his, however many users came  *)
(* and went while older loads were under way (Layout.tsx:28-82).           *)
HeaderIsTheUsers ==
  (header.layout = LayoutShown /\ header.layout # Nowhere /\ ~EffectLate
     /\ \A l \in header.loads : l.cancelled)
  => header.count \in {who, Guest}

(* A toast on the screen has a timer that will take it off: whichever list *)
(* of toasts the handlers knew when they cancelled its other timers        *)
(* (ToastContext.tsx:80-135).                                              *)
NoToastIsStuck == \A n \in Notices : OnList(n) => timer[n] \cap {"dismiss", "remove"} # {}
=============================================================================

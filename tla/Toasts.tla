------------------------------- MODULE Toasts -------------------------------
(***************************************************************************)
(* The notifications of the web application                                *)
(* (frontend/src/context/ToastContext.tsx).  A toast enters, stays and     *)
(* leaves by timers; it can be closed, and the oldest one makes room for   *)
(* new ones.  The handlers know the toasts by a reference that an effect   *)
(* brings up to date after the rendering, so they may decide by an older   *)
(* list than the one they change.                                          *)
(***************************************************************************)
EXTENDS Naturals, FiniteSets, FiniteSetsExt

CONSTANTS
  MaxToasts,  \* bound: toasts shown
  MaxVisible  \* MAX_VISIBLE_TOASTS

ASSUME ToastsAssumption == MaxToasts \in Nat /\ MaxVisible \in Nat \ {0}

VARIABLES
  toast,  \* toast[n]: the n-th toast in the list of toasts
  known,  \* toastsRef: what the reference has of it
  timer   \* timer[n]: its timers that are set

toastVars == <<toast, known, timer>>

Notices == 1 .. MaxToasts

ToastsTypeOK ==
  /\ toast \in [Notices -> {"none", "entering", "visible", "leaving", "gone"}]
  /\ known \in [Notices -> {"absent", "hidden", "visible"}]
  /\ timer \in [Notices -> SUBSET {"enter", "dismiss", "remove"}]

ToastsInit ==
  /\ toast = [n \in Notices |-> "none"]
  /\ known = [n \in Notices |-> "absent"]
  /\ timer = [n \in Notices |-> {}]

OnList(n) == toast[n] \in {"entering", "visible", "leaving"}

\* What the reference will have.
Current ==
  [n \in Notices |-> IF ~OnList(n) THEN "absent"
                     ELSE IF toast[n] = "visible" THEN "visible" ELSE "hidden"]

RefreshReference == known # Current /\ known' = Current /\ UNCHANGED <<toast, timer>>

Leaving(n) == [toast EXCEPT ![n] = IF OnList(n) THEN "leaving" ELSE @]

\* Mutant: the timer of the removal is set for toasts that can be seen, and only for those.
RemovalOfVisible(n) == IF known[n] = "visible" THEN {"remove"} ELSE {}

Removal(n) == IF known[n] = "absent" THEN timer[n] ELSE {"remove"}

\* dismissToast
Dismiss(n) ==
  /\ toast' = IF known[n] = "absent" THEN toast ELSE Leaving(n)
  /\ timer' = [timer EXCEPT ![n] = Removal(n)]
  /\ UNCHANGED known

Close(n) == OnList(n) /\ Dismiss(n)

KnownVisible == {n \in Notices : known[n] = "visible"}

\* showToast: the oldest toast known to be visible leaves if there are too many.
ShowToast(n) ==
  LET room == Cardinality(KnownVisible) < MaxVisible
      oldest == Min(KnownVisible)
  IN  /\ toast[n] = "none" /\ \A m \in 1 .. n - 1 : toast[m] # "none"
      /\ toast' = [(IF room THEN toast ELSE Leaving(oldest)) EXCEPT ![n] = "entering"]
      /\ timer' = [(IF room THEN timer ELSE [timer EXCEPT ![oldest] = Removal(oldest)])
                     EXCEPT ![n] = {"enter", "dismiss"}]
      /\ UNCHANGED known

EnterTimer(n) ==
  /\ "enter" \in timer[n]
  /\ toast' = [toast EXCEPT ![n] = IF @ = "entering" THEN "visible" ELSE @]
  /\ timer' = [timer EXCEPT ![n] = @ \ {"enter"}]
  /\ UNCHANGED known

\* Seconds later: it has entered, and the reference has it.
DismissTimer(n) ==
  /\ "dismiss" \in timer[n] /\ "enter" \notin timer[n] /\ known[n] # "absent"
  /\ Dismiss(n)

RemoveTimer(n) ==
  /\ "remove" \in timer[n]
  /\ toast' = [toast EXCEPT ![n] = IF OnList(n) THEN "gone" ELSE @]
  /\ timer' = [timer EXCEPT ![n] = {}]
  /\ UNCHANGED known

ToastsNext ==
  \/ RefreshReference
  \/ \E n \in Notices :
       ShowToast(n) \/ Close(n) \/ EnterTimer(n) \/ DismissTimer(n) \/ RemoveTimer(n)
=============================================================================

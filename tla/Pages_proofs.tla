---------------------------- MODULE Pages_proofs ----------------------------
(***************************************************************************)
(* The invariants of the web application's parts, for any number of users, *)
(* selections, rows, predictions, places a query may name and toasts.      *)
(***************************************************************************)
EXTENDS Pages, SequenceTheorems, TLAPS

-----------------------------------------------------------------------------
(* The toasts *)

ToastsInv == ToastsTypeOK /\ NoToastIsStuck

(* Whatever list the handlers know, a removal leaves a toast a timer.      *)
LEMMA ToastsStep ==
  ASSUME ToastsInv, [ToastsNext]_toastVars
  PROVE  ToastsInv'
<1>1. CASE RefreshReference
  BY <1>1 DEF ToastsInv, ToastsTypeOK, NoToastIsStuck, RefreshReference, Current, OnList
<1>2. ASSUME NEW n \in Notices, Dismiss(n)
      PROVE  ToastsInv'
  BY <1>2 DEF ToastsInv, ToastsTypeOK, NoToastIsStuck, Dismiss, Removal, Leaving, OnList
<1>3. ASSUME NEW n \in Notices, ShowToast(n)
      PROVE  ToastsInv'
  <2> DEFINE room == Cardinality(KnownVisible) < MaxVisible
             oldest == Min(KnownVisible)
             toast0 == IF room THEN toast ELSE Leaving(oldest)
             timer0 == IF room THEN timer ELSE [timer EXCEPT ![oldest] = Removal(oldest)]
  <2> HIDE DEF room, oldest
  <2>1. /\ toast0 \in [Notices -> {"none", "entering", "visible", "leaving", "gone"}]
        /\ timer0 \in [Notices -> SUBSET {"enter", "dismiss", "remove"}]
    BY DEF ToastsInv, ToastsTypeOK, Leaving, Removal, OnList
  <2>2. \A m \in Notices : toast0[m] \in {"entering", "visible", "leaving"}
                             => timer0[m] \cap {"dismiss", "remove"} # {}
    BY DEF ToastsInv, ToastsTypeOK, NoToastIsStuck, Leaving, Removal, OnList
  <2> HIDE DEF toast0, timer0
  <2>3. /\ toast' = [toast0 EXCEPT ![n] = "entering"]
        /\ timer' = [timer0 EXCEPT ![n] = {"enter", "dismiss"}]
        /\ known' = known
    BY <1>3 DEF ShowToast, toast0, timer0, room, oldest
  <2> QED
    BY <2>1, <2>2, <2>3 DEF ToastsInv, ToastsTypeOK, NoToastIsStuck, OnList
<1>4. ASSUME NEW n \in Notices, EnterTimer(n) \/ RemoveTimer(n)
      PROVE  ToastsInv'
  BY <1>4 DEF ToastsInv, ToastsTypeOK, NoToastIsStuck, EnterTimer, RemoveTimer, OnList
<1>5. CASE UNCHANGED toastVars
  BY <1>5 DEF ToastsInv, ToastsTypeOK, NoToastIsStuck, OnList, toastVars
<1> QED
  BY <1>1, <1>2, <1>3, <1>4, <1>5 DEF ToastsNext, Close, DismissTimer

(* NoToastIsStuck for any number of toasts and any limit on them: a toast  *)
(* on the screen keeps a timer that takes it off.                          *)
THEOREM ToastsLeave == Spec => []NoToastIsStuck
<1>1. Init => ToastsInv
  BY DEF Init, ToastsInit, ToastsInv, ToastsTypeOK, NoToastIsStuck, OnList
<1>2. ToastsInv /\ [Next]_pagesVars => ToastsInv'
  BY ToastsStep DEF Next, pagesVars, toastVars
<1>3. ToastsInv => NoToastIsStuck
  BY DEF ToastsInv
<1> QED
  BY <1>1, <1>2, <1>3, PTL DEF Spec

-----------------------------------------------------------------------------
(* The frame *)

Headers == [layout : {"public", "adminPublic", "none", "open", "protected", Nowhere},
            ran : Accounts \cup {Guest, Nowhere},
            loads : SUBSET [of : Accounts, cancelled : BOOLEAN],
            count : Accounts \cup {Guest}]

\* Loads that were not cancelled are for the user the effect ran for last, and without one
\* under way the number is his.
HeaderInv ==
  /\ \A l \in header.loads : ~l.cancelled => l.of = header.ran
  /\ (\A l \in header.loads : l.cancelled) => header.count \in {header.ran, Guest}

FrameInv == ShellTypeOK /\ HeaderInv

(* A place that has another one for its redirect                           *)
LEMMA Prepended ==
  ASSUME NEW x \in Paths, NEW s \in Seq(Paths)
  PROVE  LET c == <<x>> \o s
         IN  c \in Places /\ Len(c) = Len(s) + 1 /\ c[1] = x /\ (s # <<>> => c[2] = s[1])
<1> DEFINE c == <<x>> \o s
<1>1. <<x>> \in Seq(Paths) /\ Len(<<x>>) = 1 /\ <<x>>[1] = x
  OBVIOUS
<1>2. c \in Seq(Paths) /\ Len(c) = Len(s) + 1
  BY <1>1, ConcatProperties
<1>3. \A i \in 1 .. 1 + Len(s) : c[i] = IF i <= 1 THEN <<x>>[i] ELSE s[i - 1]
  BY <1>1, ConcatProperties
<1>4. Len(s) \in Nat /\ (s # <<>> => Len(s) # 0)
  BY EmptySeq, LenProperties
<1>5. c[1] = x /\ (s # <<>> => c[2] = s[1])
  BY <1>1, <1>3, <1>4
<1>6. c # <<>>
  BY <1>2, <1>4, EmptySeq
<1> QED
  BY <1>2, <1>5, <1>6 DEF Places

(* What follows the first path of a place                                  *)
LEMMA Followers ==
  ASSUME NEW a \in Places
  PROVE  /\ Head(a) = a[1] /\ a[1] \in Paths /\ Len(a) \in Nat \ {0}
         /\ Tail(a) \in Seq(Paths) /\ Len(Tail(a)) = Len(a) - 1
         /\ Len(a) > 1 => Tail(a) \in Places /\ Tail(a)[1] = a[2] /\ a[2] \in Paths
<1>1. a \in Seq(Paths) /\ a # <<>>
  BY DEF Places
<1>2. Len(a) \in Nat \ {0} /\ a[1] \in Paths /\ Head(a) = a[1]
  BY <1>1, EmptySeq, LenProperties, ElementOfSeq, HeadTailProperties
<1>3. Tail(a) \in Seq(Paths) /\ Len(Tail(a)) = Len(a) - 1
  BY <1>1, HeadTailProperties
<1>4. ASSUME Len(a) > 1
      PROVE  Tail(a) \in Places /\ Tail(a)[1] = a[2] /\ a[2] \in Paths
  <2>0. Len(Tail(a)) # 0 /\ Len(<<>>) = 0
    BY <1>2, <1>3, <1>4
  <2>1. Tail(a) # <<>>
    BY <2>0
  <2>2. Tail(a)[1] = a[2]
    BY <1>1, <1>2, <1>3, <1>4, HeadTailProperties
  <2> QED
    BY <1>1, <1>2, <1>3, <1>4, <2>1, <2>2, ElementOfSeq DEF Places
<1> QED
  BY <1>2, <1>3, <1>4

(* A place without a query                                                 *)
LEMMA Bare == \A path \in Paths : <<path>> \in Places /\ Len(<<path>>) = 1 /\ <<path>>[1] = path
  BY DEF Places

(* An address nests no more paths than Depth.                              *)
LEMMA Addressed ==
  ASSUME NEW spot \in Addresses
  PROVE  spot \in Places /\ Len(spot) <= Depth
<1> USE ShellAssumption
<1> DEFINE queries == UNION {[1 .. n -> Targets] : n \in 0 .. Depth - 1}
           nest(path, q) == <<path>> \o q
<1>0. Addresses = {nest(path, q) : path \in Paths, q \in queries}
  BY DEF Addresses
<1> HIDE DEF queries, nest
<1>a. \E path \in Paths : \E q \in queries : spot = nest(path, q)
  BY <1>0
<1>b. PICK path \in Paths : \E q \in queries : spot = nest(path, q)
  BY <1>a
<1>1. PICK q \in queries : spot = nest(path, q)
  BY <1>b
<1>q. PICK n \in 0 .. Depth - 1 : q \in [1 .. n -> Targets]
  BY DEF queries
<1>2. q \in Seq(Paths) /\ Len(q) = n
  <2>1. q \in [1 .. n -> Paths] /\ n \in Nat
    BY <1>q
  <2> QED
    BY <2>1, SeqDef, LenProperties
<1> QED
  BY <1>1, <1>q, <1>2, Prepended DEF nest

(* Following a redirect moves the location and nothing else.               *)
LEMMA FollowKeepsHeader ==
  ASSUME FrameInv, NEW target \in Places, Follow(target)
  PROVE  FrameInv'
  BY DEF FrameInv, HeaderInv, ShellTypeOK, Follow

(* What a sign-in leads to is a place.                                     *)
LEMMA PlacesTyped ==
  ASSUME ShellTypeOK
  PROVE  SafeRedirect \in Places /\ AdminRedirect \in Places
<1>1. at \in Places
  BY DEF ShellTypeOK
<1>2. {"page", "admin"} \subseteq Paths
  BY DEF Paths
<1> QED
  BY <1>1, <1>2, Followers, Bare DEF SafeRedirect, AdminRedirect, Redirect

(* The form and the header as they begin are well typed.                   *)
LEMMA NothingTyped ==
  /\ NoForm \in [state : {"idle", "asking", "regret"}, admin : BOOLEAN, dest : Places]
  /\ Bareheaded \in Headers
<1>1. <<"page">> \in Places
  BY Bare DEF Paths
<1> QED
  BY <1>1 DEF NoForm, Bareheaded, Headers

(* A new load cancels those under way and is the only one that counts.     *)
LEMMA LoadsStep ==
  ASSUME ShellTypeOK, HeaderInv, LoadNumbers
  PROVE  HeaderInv' /\ header' \in Headers
<1> DEFINE dropped == {[l EXCEPT !.cancelled = TRUE] : l \in header.loads}
<1>1. header \in Headers /\ who \in Accounts \cup {Guest}
  BY DEF ShellTypeOK, Headers
<1>2. dropped \subseteq [of : Accounts, cancelled : BOOLEAN] /\ \A l \in dropped : l.cancelled
  BY <1>1 DEF Headers
<1>3. CASE who = Guest
  <2>1. header' = [header EXCEPT !.ran = who, !.loads = dropped, !.count = Guest]
    BY <1>3 DEF LoadNumbers
  <2> HIDE DEF dropped
  <2> QED
    BY <1>1, <1>2, <1>3, <2>1 DEF HeaderInv, Headers
<1>4. CASE who # Guest
  <2> DEFINE fresh == [of |-> who, cancelled |-> FALSE]
  <2>1. header' = [header EXCEPT !.ran = who, !.loads = dropped \cup {fresh}]
    BY <1>4 DEF LoadNumbers
  <2>2. fresh \in [of : Accounts, cancelled : BOOLEAN] /\ ~fresh.cancelled /\ fresh.of = who
    BY <1>1, <1>4
  <2> HIDE DEF dropped, fresh
  <2>3. header' \in Headers /\ header'.ran = who /\ header'.loads = dropped \cup {fresh}
    BY <1>1, <1>2, <1>4, <2>1, <2>2 DEF Headers
  <2> QED
    BY <1>2, <2>2, <2>3 DEF HeaderInv
<1> QED
  BY <1>3, <1>4

(* An answer counts only if it is for the user the effect ran for last.    *)
LEMMA AnswerStep ==
  ASSUME ShellTypeOK, HeaderInv, NEW l \in header.loads, NumbersAnswered(l)
  PROVE  HeaderInv' /\ header' \in Headers
<1>1. header \in Headers
  BY DEF ShellTypeOK, Headers
<1>2. PICK n \in {l.of, Guest} :
        header' = [header EXCEPT !.loads = @ \ {l}, !.count = IF Counted(l) THEN n ELSE @]
  BY DEF NumbersAnswered
<1>3. /\ header'.ran = header.ran /\ header'.loads = header.loads \ {l}
      /\ header'.count = IF ~l.cancelled THEN n ELSE header.count
      /\ l \in [of : Accounts, cancelled : BOOLEAN]
  BY <1>1, <1>2 DEF Headers, Counted
<1>4. header' \in Headers
  BY <1>1, <1>2, <1>3 DEF Headers
<1> QED
  BY <1>3, <1>4 DEF HeaderInv

(* Every step of the frame keeps the types and the header's invariant.     *)
LEMMA FrameStep ==
  ASSUME FrameInv, [ShellNext]_shellVars
  PROVE  FrameInv'
<1> USE ShellAssumption
<1>1. ShellTypeOK
  BY DEF FrameInv
<1>2. CASE ProtectedRoute \/ PublicRoute \/ AdminPublicRoute \/ AdminProtectedRoute
             \/ RedirectingRoute
  <2>1. at \in Seq(Paths) /\ {"login", "adminLogin", "page", "root"} \subseteq Paths
    BY <1>1 DEF ShellTypeOK, Places, Paths
  <2>2. <<"login">> \o at \in Places /\ <<"adminLogin">> \o at \in Places
    BY <2>1, Prepended
  <2>3. <<"page">> \in Places /\ <<"root">> \in Places
    BY <2>1, Bare
  <2>4. PICK target \in Places : Follow(target)
    BY <1>1, <1>2, <2>2, <2>3, PlacesTyped
       DEF ProtectedRoute, PublicRoute, AdminPublicRoute, AdminProtectedRoute, RedirectingRoute
  <2> QED
    BY <2>4, FollowKeepsHeader
<1>3. ASSUME NEW spot \in Places, Click(spot)
      PROVE  FrameInv'
  BY <1>3 DEF FrameInv, HeaderInv, ShellTypeOK, Click, Moved
<1>4. ASSUME NEW spot \in Places, TypeAddress(spot)
      PROVE  FrameInv'
  <2>1. ShellTypeOK'
    BY <1>1, <1>4, NothingTyped DEF ShellTypeOK, Headers, TypeAddress, Moved
  <2>2. HeaderInv'
    BY <1>4 DEF HeaderInv, TypeAddress, Bareheaded
  <2> QED
    BY <2>1, <2>2 DEF FrameInv
<1>5. ASSUME NEW user \in Accounts \cup {Guest}, Restored(user)
      PROVE  FrameInv'
  BY <1>5 DEF FrameInv, HeaderInv, ShellTypeOK, Restored
<1>6. ASSUME NEW user \in Accounts, SignedIn(user)
      PROVE  FrameInv'
  <2>1. CASE form.admin /\ user \notin Admins
    BY <1>1, <1>6, <2>1 DEF FrameInv, HeaderInv, ShellTypeOK, SignedIn
  <2>2. CASE ~(form.admin /\ user \notin Admins)
    <3>1. at' \in Places
      BY <1>1, <1>6, <2>2 DEF ShellTypeOK, SignedIn
    <3>2. ShellTypeOK'
      BY <1>1, <1>6, <2>2, <3>1, NothingTyped DEF ShellTypeOK, Headers, SignedIn
    <3>3. HeaderInv'
      BY <1>6, <2>2 DEF FrameInv, HeaderInv, SignedIn
    <3> QED
      BY <3>2, <3>3 DEF FrameInv
  <2> QED
    BY <2>1, <2>2
<1>7. CASE SubmitForm
  BY <1>1, <1>7, PlacesTyped DEF FrameInv, HeaderInv, ShellTypeOK, SubmitForm
<1>8. CASE SignInFails \/ Regretted
  <2>1. ShellTypeOK'
    BY <1>1, <1>8, NothingTyped DEF ShellTypeOK, Headers, SignInFails, Regretted
  <2>2. HeaderInv'
    BY <1>8 DEF FrameInv, HeaderInv, SignInFails, Regretted
  <2> QED
    BY <2>1, <2>2 DEF FrameInv
<1>9. CASE ClickLogout \/ SessionLost
  <2>1. ShellTypeOK'
    <3>1. CASE ClickLogout
      BY <1>1, <3>1 DEF ShellTypeOK, ClickLogout
    <3>2. CASE SessionLost
      BY <1>1, <3>2 DEF ShellTypeOK, SessionLost
    <3> QED
      BY <1>9, <3>1, <3>2
  <2>2. HeaderInv'
    BY <1>9 DEF FrameInv, HeaderInv, ClickLogout, SessionLost
  <2> QED
    BY <2>1, <2>2 DEF FrameInv
<1>10. CASE LogoutEnds
  <2>1. <<"login">> \in Places
    BY Bare DEF Paths
  <2> QED
    BY <1>10, <2>1 DEF FrameInv, HeaderInv, ShellTypeOK, LogoutEnds, Moved
<1>11. CASE MountLayout
  <2>1. LayoutShown \in {"public", "adminPublic", "none", "open", "protected", Nowhere}
    BY DEF LayoutShown, LetIn, Layouts
  <2> QED
    BY <1>11, <2>1 DEF FrameInv, HeaderInv, ShellTypeOK, MountLayout, OnlyHeader,
                       Bareheaded
<1>12. CASE LoadNumbers
  BY <1>1, <1>12, LoadsStep DEF FrameInv, ShellTypeOK, Headers, LoadNumbers, OnlyHeader
<1>13. ASSUME NEW l \in header.loads, NumbersAnswered(l)
       PROVE  FrameInv'
  BY <1>1, <1>13, AnswerStep
     DEF FrameInv, ShellTypeOK, Headers, NumbersAnswered, OnlyHeader
<1>14. at \in Places
  BY <1>1 DEF ShellTypeOK
<1>15. CASE UNCHANGED shellVars
  BY <1>15 DEF FrameInv, HeaderInv, ShellTypeOK, shellVars
<1> QED
  BY <1>2, <1>3, <1>4, <1>5, <1>6, <1>7, <1>8, <1>9, <1>10, <1>11, <1>12,
     <1>13, <1>14, <1>15, Addressed DEF ShellNext

(* The frame begins with a header that shows nothing.                      *)
LEMMA FrameInit ==
  ASSUME ShellInit
  PROVE  FrameInv
<1>1. ShellTypeOK
  BY NothingTyped, Bare DEF ShellInit, ShellTypeOK, Headers, Paths
<1>2. HeaderInv
  BY DEF ShellInit, HeaderInv, Bareheaded
<1> QED
  BY <1>1, <1>2 DEF FrameInv

(* HeaderIsTheUsers for any number of accounts and loads: a number that    *)
(* stands in the header belongs to the user shown.                         *)
THEOREM HeaderBelongs == Spec => []HeaderIsTheUsers
<1>1. Init => FrameInv
  BY FrameInit DEF Init
<1>2. FrameInv /\ [Next]_pagesVars => FrameInv'
  BY FrameStep DEF Next, pagesVars, shellVars
<1>3. FrameInv => HeaderIsTheUsers
  BY DEF FrameInv, HeaderInv, ShellTypeOK, HeaderIsTheUsers, EffectLate
<1> QED
  BY <1>1, <1>2, <1>3, PTL DEF Spec

\* How many paths a place has: as many as an address, or one more if a guard has made an address
\* the redirect of a page to sign in; from there it is followed at once.
PlaceOK(a) ==
  /\ a \in Places
  /\ \/ Len(a) <= Depth
     \/ Len(a) = Depth + 1 /\ a[1] \in {"login", "adminLogin"} /\ a[2] \in {"page", "root", "admin"}

\* The redirects that can still follow at a place, for a user
Left(a, user) ==
  CASE a[1] \in Unknown -> 2
    [] a[1] = "root" -> 1
    [] a[1] = "page" -> IF user = Guest THEN 1 ELSE 0
    [] a[1] = "admin" -> IF user \in Admins THEN 0 ELSE 1
    [] a[1] \in {"login", "adminLogin"} ->
         IF user = Guest THEN 0
         ELSE IF Len(a) > 1 /\ a[2] \in {"page", "root", "admin"} THEN 2 ELSE Len(a) + 1
    [] OTHER -> 0

PlaceInv == PlaceOK(at) /\ Len(form.dest) <= Depth

RedirectsInv == PlaceInv /\ hops + Left(at, who) <= Depth + 1

(* No place is further from a page than its paths and one redirect.        *)
LEMMA LeftBound == \A a, user : PlaceOK(a) => Left(a, user) \in 0 .. Depth + 1
<1> SUFFICES ASSUME NEW a, NEW user, PlaceOK(a)  PROVE Left(a, user) \in 0 .. Depth + 1
  OBVIOUS
<1>1. Len(a) \in Nat \ {0} /\ Depth \in Nat \ {0}
  BY Followers, ShellAssumption DEF PlaceOK
<1> QED
  BY <1>1 DEF Left, PlaceOK, Unknown

(* A place without a query is an address.                                  *)
LEMMA BareIsOK ==
  ASSUME NEW path \in Paths
  PROVE  PlaceOK(<<path>>) /\ Len(<<path>>) <= Depth
<1> DEFINE c == <<path>>
<1>1. c \in Places /\ Len(c) = 1
  BY Bare
<1> HIDE DEF c
<1>2. Len(c) <= Depth
  BY <1>1, ShellAssumption
<1>3. PlaceOK(c)
  BY <1>1, <1>2 DEF PlaceOK
<1> QED
  BY <1>2, <1>3 DEF c

(* The place in the query is nearer to a page than the one that asks.      *)
LEMMA RedirectIsNearer ==
  ASSUME PlaceOK(at), who # Guest, at[1] \in {"login", "adminLogin"}, Len(at) > 1
  PROVE  PlaceOK(Redirect) /\ Len(Redirect) <= Depth /\ Left(Redirect, who) <= Left(at, who) - 1
<1> USE ShellAssumption
<1> DEFINE r == Tail(at)
<1>1. at \in Places
  BY DEF PlaceOK
<1>2. Len(at) \in Nat /\ Len(r) = Len(at) - 1 /\ r \in Places /\ r[1] = at[2]
  BY <1>1, Followers
<1>3. PlaceOK(r) /\ Len(r) <= Depth
  BY <1>2 DEF PlaceOK
<1> HIDE DEF r
<1>4. CASE at[2] \in {"page", "root", "admin"}
  <2>1. Left(at, who) = 2
    BY <1>4 DEF Left, Unknown
  <2>2. Left(r, who) \in {0, 1}
    BY <1>2, <1>4 DEF Left, Unknown
  <2> QED
    BY <1>3, <2>1, <2>2 DEF r, Redirect
<1>5. CASE at[2] \notin {"page", "root", "admin"}
  <2>1. Left(at, who) = Len(at) + 1
    BY <1>5 DEF Left, Unknown
  <2>2. Left(r, who) <= Len(r) + 1
    BY <1>2, <1>5 DEF Left, Unknown
  <2>3. Left(r, who) \in Nat
    BY <1>3, LeftBound
  <2> QED
    BY <1>2, <1>3, <2>1, <2>2, <2>3 DEF r, Redirect
<1> QED
  BY <1>3, <1>4, <1>5 DEF r, Redirect

(* A redirect uses up one of those to come.                                *)
LEMMA RedirectCounts ==
  ASSUME ShellTypeOK, PlaceOK(at),
         ProtectedRoute \/ PublicRoute \/ AdminPublicRoute \/ AdminProtectedRoute
           \/ RedirectingRoute
  PROVE  /\ hops' = hops + 1 /\ UNCHANGED <<who, form>>
         /\ PlaceOK(at') /\ Left(at', who) <= Left(at, who) - 1
<1> USE ShellAssumption
<1>1. at \in Places /\ at \in Seq(Paths) /\ at # <<>> /\ Here = at[1] /\ Len(at) \in Nat \ {0}
      /\ who \in Accounts \cup {Guest}
  BY Followers DEF ShellTypeOK, Places, Here
<1>2. \A path \in Paths : PlaceOK(<<path>>)
  BY BareIsOK
<1>3. {"login", "adminLogin", "page", "root", "admin"} \subseteq Paths
  BY DEF Paths
<1>4. ASSUME NEW p \in {"login", "adminLogin"}, Follow(<<p>> \o at), at[1] \in {"page", "root", "admin"},
             who = Guest
      PROVE  PlaceOK(at') /\ Left(at', who) <= Left(at, who) - 1
  <2> DEFINE c == <<p>> \o at
  <2>1. c \in Places /\ Len(c) = Len(at) + 1 /\ c[1] = p /\ c[2] = at[1]
    BY <1>1, <1>3, Prepended
  <2>2. at' = c
    BY <1>4 DEF Follow
  <2> HIDE DEF c
  <2>3. Len(at) <= Depth
    BY <1>4 DEF PlaceOK
  <2>4. PlaceOK(c)
    BY <1>1, <1>4, <2>1, <2>3 DEF PlaceOK
  <2>5. Left(c, who) = 0 /\ Left(at, who) = 1
    BY <1>4, <2>1 DEF Left, Unknown
  <2> QED
    BY <2>2, <2>4, <2>5
<1>5. ASSUME NEW path \in {"page", "root", "admin"}, Follow(<<path>>),
             Left(<<path>>, who) <= Left(at, who) - 1
      PROVE  PlaceOK(at') /\ Left(at', who) <= Left(at, who) - 1
  BY <1>2, <1>3, <1>5 DEF Follow
<1>6. Left(<<"page">>, who) = (IF who = Guest THEN 1 ELSE 0) /\ Left(<<"root">>, who) = 1
  BY DEF Left, Unknown
<1>7. who \in Admins => Left(<<"admin">>, who) = 0
  BY DEF Left, Unknown
<1>8. Left(at, who) \in Nat
  BY LeftBound
<1>9. CASE ProtectedRoute
  <2>1. Follow(<<"login">> \o at) /\ at[1] \in {"page", "root"} /\ who = Guest
    BY <1>1, <1>9 DEF ProtectedRoute
  <2> QED
    BY <2>1, <1>4 DEF Follow
<1>10. ASSUME at[1] \in {"login", "adminLogin"}, who # Guest
       PROVE  Left(at, who) >= 2
  BY <1>1, <1>10 DEF Left, Unknown
<1>11. ASSUME at[1] \in {"login", "adminLogin"}, who # Guest, Len(at) > 1, Follow(Redirect)
       PROVE  PlaceOK(at') /\ Left(at', who) <= Left(at, who) - 1
  BY <1>11, RedirectIsNearer DEF Follow
<1>12. CASE PublicRoute
  <2>1. at[1] = "login" /\ who # Guest /\ Follow(SafeRedirect)
    BY <1>1, <1>12 DEF PublicRoute
  <2>2. CASE Len(at) > 1
    BY <2>1, <2>2, <1>11 DEF SafeRedirect, Follow
  <2>3. CASE ~(Len(at) > 1)
    <3>1. Follow(<<"page">>)
      BY <2>1, <2>3 DEF SafeRedirect
    <3> QED
      BY <2>1, <3>1, <1>5, <1>6, <1>8, <1>10 DEF Follow
  <2> QED
    BY <2>2, <2>3
<1>13. CASE AdminPublicRoute
  <2>1. at[1] = "adminLogin" /\ who # Guest
        /\ Follow(IF who \in Admins THEN AdminRedirect ELSE <<"page">>)
    BY <1>1, <1>13 DEF AdminPublicRoute
  <2>2. CASE Follow(<<"page">>)
    BY <2>1, <2>2, <1>5, <1>6, <1>8, <1>10 DEF Follow
  <2>3. CASE who \in Admins /\ Len(at) > 1 /\ Follow(Redirect)
    BY <2>1, <2>3, <1>11 DEF Follow
  <2>4. CASE who \in Admins /\ Follow(<<"admin">>)
    BY <2>1, <2>4, <1>5, <1>7, <1>8, <1>10 DEF Follow
  <2> QED
    BY <2>1, <2>2, <2>3, <2>4 DEF AdminRedirect
<1>14. CASE AdminProtectedRoute
  <2>1. at[1] = "admin" /\ who \notin Admins
        /\ Follow(IF who = Guest THEN <<"adminLogin">> \o at ELSE <<"page">>)
    BY <1>1, <1>14 DEF AdminProtectedRoute
  <2>2. Left(at, who) = 1
    BY <2>1 DEF Left, Unknown
  <2>3. CASE who = Guest
    BY <2>1, <2>3, <1>4 DEF Follow
  <2>4. CASE who # Guest
    BY <2>1, <2>2, <2>4, <1>5, <1>6 DEF Follow
  <2> QED
    BY <2>3, <2>4
<1>15. CASE RedirectingRoute
  <2>1. CASE at[1] = "root" /\ who # Guest /\ Follow(<<"page">>)
    <3>1. Left(at, who) = 1
      BY <2>1 DEF Left, Unknown
    <3> QED
      BY <2>1, <3>1, <1>5, <1>6 DEF Follow
  <2>2. CASE at[1] \in Unknown /\ Follow(<<"root">>)
    <3>1. Left(at, who) = 2
      BY <2>2 DEF Left, Unknown
    <3> QED
      BY <2>2, <3>1, <1>5, <1>6 DEF Follow
  <2> QED
    BY <1>1, <1>15, <2>1, <2>2 DEF RedirectingRoute
<1> QED
  BY <1>9, <1>12, <1>13, <1>14, <1>15

(* Nothing but a redirect lengthens the row of redirects, and nothing but  *)
(* a guard the address.                                                    *)
LEMMA RedirectsStep ==
  ASSUME ShellTypeOK, ShellTypeOK', RedirectsInv, [ShellNext]_shellVars
  PROVE  RedirectsInv'
<1> USE ShellAssumption
<1>1. /\ hops \in Nat /\ Left(at, who) \in 0 .. Depth + 1 /\ PlaceOK(at) /\ Len(form.dest) <= Depth
      /\ form.dest \in Places /\ at \in Places
  BY LeftBound DEF ShellTypeOK, RedirectsInv, PlaceInv
<1>2. CASE ProtectedRoute \/ PublicRoute \/ AdminPublicRoute \/ AdminProtectedRoute
             \/ RedirectingRoute
  <2>1. /\ hops' = hops + 1 /\ UNCHANGED <<who, form>>
        /\ PlaceOK(at') /\ Left(at', who) <= Left(at, who) - 1
    BY <1>1, <1>2, RedirectCounts
  <2>2. Left(at', who) \in Nat
    BY <2>1, LeftBound
  <2> QED
    BY <1>1, <2>1, <2>2 DEF RedirectsInv, PlaceInv
<1>3. ASSUME hops' = 0, PlaceOK(at'), Len(form'.dest) <= Depth
      PROVE  RedirectsInv'
  <2>1. Left(at', who') \in 0 .. Depth + 1
    BY <1>3, LeftBound
  <2> QED
    BY <1>3, <2>1 DEF RedirectsInv, PlaceInv
<1>4. ASSUME UNCHANGED <<at, who, hops>>, Len(form'.dest) <= Depth
      PROVE  RedirectsInv'
  BY <1>4 DEF RedirectsInv, PlaceInv
<1>5. \A path \in Paths : PlaceOK(<<path>>) /\ Len(<<path>>) <= Depth
  BY BareIsOK
<1>6. <<"login">> \in Places /\ PlaceOK(<<"login">>) /\ Len(NoForm.dest) <= Depth
  BY <1>5, Bare DEF Paths, NoForm
<1>7. ASSUME NEW spot, PlaceOK(spot), Click(spot) \/ TypeAddress(spot)
      PROVE  RedirectsInv'
  BY <1>1, <1>3, <1>6, <1>7 DEF Click, TypeAddress, Moved
<1>8. \A spot \in Addresses : PlaceOK(spot)
  BY Addressed DEF PlaceOK
<1>9. ASSUME NEW user, Restored(user)
      PROVE  RedirectsInv'
  BY <1>1, <1>3, <1>9 DEF Restored
<1>10. ASSUME NEW user, SignedIn(user)
       PROVE  RedirectsInv'
  <2>1. PlaceOK(form.dest)
    BY <1>1 DEF PlaceOK
  <2>2. CASE UNCHANGED at /\ form' = [form EXCEPT !.state = "regret"]
    <3>1. form'.dest = form.dest
      BY <2>2 DEF ShellTypeOK
    <3> QED
      BY <1>1, <1>3, <1>10, <2>2, <3>1 DEF SignedIn
  <2>3. CASE at' = form.dest /\ form' = NoForm
    BY <1>3, <1>6, <1>10, <2>1, <2>3 DEF SignedIn
  <2> QED
    BY <1>10, <2>2, <2>3 DEF SignedIn
<1>11. CASE SubmitForm
  <2>1. at[1] \in {"login", "adminLogin"} /\ Len(Redirect) = Len(at) - 1 /\ Len(at) \in Nat
    BY <1>1, <1>11, Followers DEF SubmitForm, Redirect, Here
  <2>2. Len(SafeRedirect) <= Depth /\ Len(AdminRedirect) <= Depth
    BY <1>1, <1>5, <2>1 DEF SafeRedirect, AdminRedirect, PlaceOK, Paths
  <2> QED
    BY <1>4, <1>11, <2>2 DEF SubmitForm
<1>12. CASE Regretted \/ LogoutEnds \/ SessionLost
  BY <1>1, <1>3, <1>6, <1>12 DEF Regretted, LogoutEnds, SessionLost, Moved
<1>13. CASE SignInFails
  BY <1>4, <1>6, <1>13 DEF SignInFails
<1>14. CASE UNCHANGED <<at, who, hops, form>>
  BY <1>1, <1>4, <1>14
<1> QED
  BY <1>1, <1>2, <1>7, <1>8, <1>9, <1>10, <1>11, <1>12, <1>13, <1>14
     DEF ShellNext, shellVars, ClickLogout, MountLayout, LoadNumbers, NumbersAnswered, OnlyHeader

(* RedirectsEnd for any accounts, any paths that a query may name and      *)
(* however deep an address nests them: every redirect uses up a place that *)
(* the address names, and no guard puts one back but for the address that  *)
(* it takes along to the page to sign in (App.tsx:45-151).                 *)
THEOREM NoRedirectLoop == Spec => []RedirectsEnd
<1>1. Init => FrameInv /\ RedirectsInv
  <2> SUFFICES ASSUME Init PROVE FrameInv /\ RedirectsInv
    OBVIOUS
  <2>1. FrameInv
    BY FrameInit DEF Init
  <2>2. <<"root">> \in Places /\ Len(<<"root">>) = 1 /\ Len(<<"page">>) = 1
    BY Bare DEF Paths
  <2>3. PlaceOK(at) /\ Len(form.dest) <= Depth /\ hops = 0
    BY <2>2, ShellAssumption DEF Init, ShellInit, PlaceOK, NoForm
  <2>4. Left(at, who) \in 0 .. Depth + 1
    BY <2>3, LeftBound
  <2> QED
    BY <2>1, <2>3, <2>4, ShellAssumption DEF RedirectsInv, PlaceInv
<1>2. FrameInv /\ RedirectsInv /\ [Next]_pagesVars => FrameInv' /\ RedirectsInv'
  <2> SUFFICES ASSUME FrameInv, RedirectsInv, [ShellNext]_shellVars
               PROVE  FrameInv' /\ RedirectsInv'
    BY DEF Next, pagesVars, shellVars
  <2>1. FrameInv'
    BY FrameStep
  <2> QED
    BY <2>1, RedirectsStep DEF FrameInv
<1>3. FrameInv /\ RedirectsInv => RedirectsEnd
  <2> SUFFICES ASSUME FrameInv, RedirectsInv PROVE RedirectsEnd
    OBVIOUS
  <2>1. Left(at, who) \in 0 .. Depth + 1 /\ hops \in Nat
    BY LeftBound DEF FrameInv, ShellTypeOK, RedirectsInv, PlaceInv
  <2> QED
    BY <2>1, ShellAssumption DEF RedirectsInv, RedirectsEnd
<1> QED
  BY <1>1, <1>2, <1>3, PTL DEF Spec

-----------------------------------------------------------------------------
(* The slip *)

\* A slip that was loaded holds selections of the user it was loaded for, one that was not
\* loaded holds none, and what is stored under a key is the key's.
OwnSelections ==
  /\ \A k \in Keys : \A p \in saved[k].picks : p.by = k
  /\ \A p \in slip.picks : p.by = hydrated

\* The part of the types that the argument needs
SlipParts ==
  /\ shown \in Keys /\ token \in Keys /\ asked \in Keys
  /\ slip \in [picks : SUBSET Selection, acca : BOOLEAN, stake : {0, 1}, accaStake : {0, 1}]
  /\ saved \in [Keys -> [picks : SUBSET Selection, acca : BOOLEAN, stake : {0, 1},
                         accaStake : {0, 1}]]

SlipInv == SlipParts /\ OwnSelections

(* A user changes the slip only after the effects have run: it is the one  *)
(* loaded for the user shown, and what is added or kept is his.            *)
LEMMA ChangesAreOwn ==
  ASSUME SlipInv, ~EffectsDue, UserActs
  PROVE  SlipInv'
<1>0. hydrated = shown
  BY DEF EffectsDue
<1>1. ASSUME NEW s \in Slip, Change(s), \A p \in s.picks : p.by = hydrated
      PROVE  SlipInv'
  BY <1>1 DEF SlipInv, SlipParts, OwnSelections, Change, Slip
<1>2. ASSUME NEW match \in Matches, AddSelection(match)
      PROVE  SlipInv'
  <2> DEFINE new == [id |-> Fresh, match |-> match, single |-> TRUE, by |-> shown]
             s == [slip EXCEPT !.picks = {p \in @ : p.match # match} \cup {new}]
  <2>1. Fresh \in Picks
    BY <1>2 DEF AddSelection, Fresh
  <2>2. new \in Selection /\ new.by = shown
    BY <2>1 DEF SlipInv, SlipParts, Selection
  <2> HIDE DEF new
  <2>3. s \in Slip /\ s.picks = {p \in slip.picks : p.match # match} \cup {new}
    BY <2>2 DEF SlipInv, SlipParts, Slip
  <2>4. \A p \in s.picks : p.by = hydrated
    BY <1>0, <2>2, <2>3 DEF SlipInv, OwnSelections
  <2>5. Change(s)
    BY <1>2 DEF AddSelection, new
  <2> QED
    BY <1>1, <2>3, <2>4, <2>5
<1>3. ASSUME NEW p \in slip.picks, ToggleSingle(p)
      PROVE  SlipInv'
  <2> DEFINE turned == [p EXCEPT !.single = ~@]
             s == [slip EXCEPT !.picks = (@ \ {p}) \cup {turned}]
  <2>1. turned \in Selection /\ turned.by = p.by
    BY DEF SlipInv, SlipParts, Selection
  <2> HIDE DEF turned
  <2>2. s \in Slip /\ s.picks = (slip.picks \ {p}) \cup {turned}
    BY <2>1 DEF SlipInv, SlipParts, Slip
  <2>3. \A q \in s.picks : q.by = hydrated
    BY <2>1, <2>2 DEF SlipInv, OwnSelections
  <2>4. Change(s)
    BY <1>3 DEF ToggleSingle, turned
  <2> QED
    BY <1>1, <2>2, <2>3, <2>4
<1>4. ASSUME NEW s, Change(s), s \in Slip, s.picks \subseteq slip.picks
      PROVE  SlipInv'
  BY <1>1, <1>4 DEF SlipInv, OwnSelections
<1>5. ASSUME NEW p \in slip.picks, RemoveSelection(p)
      PROVE  SlipInv'
  <2> DEFINE s == [slip EXCEPT !.picks = @ \ {p}]
  <2>1. s \in Slip /\ s.picks \subseteq slip.picks
    BY DEF SlipInv, SlipParts, Slip
  <2> QED
    BY <1>4, <1>5, <2>1 DEF RemoveSelection
<1>6. CASE ClearSlip
  <2>1. Cleared \in Slip /\ Cleared.picks \subseteq slip.picks
    BY DEF SlipInv, SlipParts, Slip, Cleared
  <2> QED
    BY <1>4, <1>6, <2>1 DEF ClearSlip
<1>7. CASE ToggleAccumulator
  <2> DEFINE s == [slip EXCEPT !.acca = ~@]
  <2>1. s \in Slip /\ s.picks \subseteq slip.picks
    BY DEF SlipInv, SlipParts, Slip
  <2> QED
    BY <1>4, <1>7, <2>1 DEF ToggleAccumulator
<1>8. ASSUME NEW n \in {0, 1}, SetSingleStake(n) \/ SetAccumulatorStake(n)
      PROVE  SlipInv'
  <2> DEFINE s == [slip EXCEPT !.stake = n]
             t == [slip EXCEPT !.accaStake = n]
  <2>1. s \in Slip /\ s.picks \subseteq slip.picks /\ t \in Slip /\ t.picks \subseteq slip.picks
    BY DEF SlipInv, SlipParts, Slip
  <2> QED
    BY <1>4, <1>8, <2>1 DEF SetSingleStake, SetAccumulatorStake
<1>9. CASE SubmitSlip \/ Logout \/ RefreshUser
  BY <1>9 DEF SlipInv, SlipParts, OwnSelections, SubmitSlip, Logout, RefreshUser, Show, Keys
<1>10. ASSUME NEW user \in Punters, NEW tokens \in 0 .. MaxTokens, Login(user, tokens)
       PROVE  SlipInv'
  BY <1>10 DEF SlipInv, SlipParts, OwnSelections, Login, Show, Keys
<1> QED
  BY <1>2, <1>3, <1>5, <1>6, <1>7, <1>8, <1>9, <1>10 DEF UserActs

(* Answers change who is shown, and clear the slip, but add nothing to it. *)
LEMMA AnswersAddNothing ==
  ASSUME SlipInv, AnswerComes
  PROVE  SlipInv'
<1>1. Cleared \in Slip /\ Cleared.picks = {}
  BY DEF SlipInv, SlipParts, Slip, Cleared
<1>2. CASE AllAnswered \/ RefreshWithoutToken
  BY <1>1, <1>2
     DEF SlipInv, SlipParts, OwnSelections, AllAnswered, RefreshWithoutToken, Slip, Keys
<1>3. ASSUME NEW bet \in Picks \cup {Combined}, NEW failed \in BOOLEAN, BetAnswered(bet, failed)
      PROVE  SlipInv'
  BY <1>3 DEF SlipInv, SlipParts, OwnSelections, BetAnswered
<1>4. CASE SubmissionEnds \/ RefreshFailed
  BY <1>4 DEF SlipInv, SlipParts, OwnSelections, SubmissionEnds, RefreshFailed, Show, Keys
<1>5. ASSUME NEW tokens \in 0 .. MaxTokens, RefreshAnswered(tokens) \/ RestoreSession(tokens)
      PROVE  SlipInv'
  BY <1>5 DEF SlipInv, SlipParts, OwnSelections, RefreshAnswered, RestoreSession, Show, Keys
<1> QED
  BY <1>2, <1>3, <1>4, <1>5 DEF AnswerComes

(* The effects store the slip under the key it was loaded from, and load   *)
(* under the key of the user shown; opening the page again empties it.     *)
LEMMA SlipStep ==
  ASSUME SlipInv, [SlipNext]_slipVars
  PROVE  SlipInv'
<1>1. CASE RunEffects
  <2>1. SlipParts'
    BY <1>1 DEF SlipInv, SlipParts, RunEffects, Persisted
  <2>2. \A k \in Keys : \A p \in saved'[k].picks : p.by = k
    BY <1>1 DEF SlipInv, SlipParts, OwnSelections, RunEffects, Persisted
  <2>3. \A p \in slip'.picks : p.by = hydrated'
    BY <1>1 DEF SlipInv, SlipParts, OwnSelections, RunEffects
  <2> QED
    BY <2>1, <2>2, <2>3 DEF SlipInv, OwnSelections
<1>2. CASE Reload
  BY <1>2 DEF SlipInv, SlipParts, OwnSelections, Reload, EmptySlip, Keys
<1>3. CASE ~EffectsDue /\ UserActs
  BY <1>3, ChangesAreOwn
<1>4. CASE ~EffectsDue /\ AnswerComes
  BY <1>4, AnswersAddNothing
<1>5. CASE UNCHANGED slipVars
  BY <1>5 DEF SlipInv, SlipParts, OwnSelections, slipVars
<1> QED
  BY <1>1, <1>2, <1>3, <1>4, <1>5 DEF SlipNext

(* SlipStaysWithUser for any users, selections and events: what is stored  *)
(* under a user's key was put on the slip by that user.                    *)
THEOREM SelectionsAreOwn == Spec => []SlipStaysWithUser
<1>1. Init => SlipInv
  BY DEF Init, SlipInit, SlipInv, SlipParts, OwnSelections, EmptySlip, Keys
<1>2. SlipInv /\ [Next]_pagesVars => SlipInv'
  BY SlipStep DEF Next, pagesVars, slipVars
<1>3. SlipInv => SlipStaysWithUser
  BY DEF SlipInv, OwnSelections, SlipStaysWithUser
<1> QED
  BY <1>1, <1>2, <1>3, PTL DEF Spec

-----------------------------------------------------------------------------
(* The ledgers as the pages list them *)

\* The answer to a request for the rows after the first "offset" of a ledger of p rows
Chunk(p, offset) ==
  LET left == IF p > offset THEN p - offset ELSE 0
  IN  [k \in 1 .. (IF left < PageSize THEN left ELSE PageSize) |-> left - k + 1]

Seen(s) == {s[k] : k \in DOMAIN s}

Whole(s) == \A i \in Seen(s) : i .. Head(s) \subseteq Seen(s)

\* The rows that a ledger of p rows has before the offset are listed, from the newest shown.
Covers(s, offset, p) == \A i \in 1 .. Head(s) : i + offset > p => i \in Seen(s)

(* An answer holds the rows between two bounds, the newest first.          *)
LEMMA ChunkHolds ==
  ASSUME NEW p \in Nat, NEW o \in Nat
  PROVE  /\ Chunk(p, o) \in Seq(1 .. p)
         /\ Len(Chunk(p, o)) <= PageSize
         /\ Seen(Chunk(p, o)) = {i \in 1 .. p : i + o <= p /\ p < i + o + PageSize}
         /\ Chunk(p, o) # <<>> => Head(Chunk(p, o)) = p - o
<1> DEFINE left == IF p > o THEN p - o ELSE 0
           n == IF left < PageSize THEN left ELSE PageSize
<1>0. PageSize \in Nat /\ PageSize >= 1
  BY HistoryAssumption
<1>1. left \in Nat /\ n \in Nat /\ n <= left /\ n <= PageSize /\ left <= p
  BY <1>0
<1>2. Chunk(p, o) = [k \in 1 .. n |-> left - k + 1]
  BY DEF Chunk
<1>3. (p > o => left = p - o) /\ (p <= o => left = 0) /\ (left < PageSize => n = left)
        /\ (left >= PageSize => n = PageSize)
  BY <1>0
<1> HIDE DEF left, n
<1>4. \A k \in 1 .. n : left - k + 1 \in 1 .. p
  BY <1>1
<1>5. Chunk(p, o) \in Seq(1 .. p) /\ Len(Chunk(p, o)) = n /\ DOMAIN Chunk(p, o) = 1 .. n
  BY <1>1, <1>2, <1>4
<1>6. Seen(Chunk(p, o)) = {left - k + 1 : k \in 1 .. n}
  BY <1>2, <1>5 DEF Seen
<1>7. ASSUME NEW i \in 1 .. p, i + o <= p, p < i + o + PageSize
      PROVE  i \in Seen(Chunk(p, o))
  <2>1. left - i + 1 \in 1 .. n /\ left - (left - i + 1) + 1 = i
    BY <1>0, <1>1, <1>3, <1>7
  <2> QED
    BY <1>6, <2>1
<1>8. ASSUME NEW k \in 1 .. n
      PROVE  left - k + 1 \in {i \in 1 .. p : i + o <= p /\ p < i + o + PageSize}
  BY <1>0, <1>1, <1>3, <1>4
<1>9. Chunk(p, o) # <<>> => Head(Chunk(p, o)) = p - o
  <2> SUFFICES ASSUME Chunk(p, o) # <<>> PROVE Head(Chunk(p, o)) = p - o
    OBVIOUS
  <2>1. n >= 1
    BY <1>1, <1>5
  <2>2. Head(Chunk(p, o)) = left - 1 + 1
    BY <1>2, <1>5, <2>1
  <2> QED
    BY <1>1, <1>3, <2>1, <2>2
<1> QED
  BY <1>1, <1>5, <1>6, <1>7, <1>8, <1>9

(* The rows of a list with an answer added are those of both.              *)
LEMMA SeenTogether ==
  ASSUME NEW s \in Seq(Nat), NEW t \in Seq(Nat)
  PROVE  /\ Seen(s \o t) = Seen(s) \cup Seen(t)
         /\ s # <<>> => Head(s \o t) = Head(s) /\ s \o t # <<>>
         /\ Len(s \o t) = Len(s) + Len(t)
<1>1. /\ s \o t \in Seq(Nat) /\ Len(s \o t) = Len(s) + Len(t)
      /\ \A k \in 1 .. Len(s) : (s \o t)[k] = s[k]
      /\ \A k \in 1 .. Len(t) : (s \o t)[Len(s) + k] = t[k]
      /\ Len(s) \in Nat /\ Len(t) \in Nat
  OBVIOUS
<1>2. DOMAIN s = 1 .. Len(s) /\ DOMAIN t = 1 .. Len(t) /\ DOMAIN (s \o t) = 1 .. Len(s \o t)
  OBVIOUS
<1>3. ASSUME NEW k \in DOMAIN (s \o t)
      PROVE  (s \o t)[k] \in Seen(s) \cup Seen(t)
  <2>1. CASE k \in 1 .. Len(s)
    BY <1>1, <1>2, <2>1 DEF Seen
  <2>2. CASE k \notin 1 .. Len(s)
    <3>1. k - Len(s) \in 1 .. Len(t) /\ Len(s) + (k - Len(s)) = k
      BY <1>1, <1>2, <2>2
    <3>2. (s \o t)[k] = t[k - Len(s)]
      BY <1>1, <3>1
    <3> QED
      BY <1>2, <3>1, <3>2 DEF Seen
  <2> QED
    BY <2>1, <2>2
<1>4. ASSUME NEW k \in DOMAIN s
      PROVE  s[k] \in Seen(s \o t)
  <2>1. k \in DOMAIN (s \o t) /\ (s \o t)[k] = s[k]
    BY <1>1, <1>2
  <2> QED
    BY <2>1 DEF Seen
<1>5. ASSUME NEW k \in DOMAIN t
      PROVE  t[k] \in Seen(s \o t)
  <2>1. Len(s) + k \in DOMAIN (s \o t) /\ (s \o t)[Len(s) + k] = t[k]
    BY <1>1, <1>2
  <2> QED
    BY <2>1 DEF Seen
<1>6. s # <<>> => Head(s \o t) = Head(s) /\ s \o t # <<>>
  BY <1>1
<1> QED
  BY <1>1, <1>3, <1>4, <1>5, <1>6 DEF Seen

(* A first answer has no gap, and covers its ledger up to its length.      *)
LEMMA FirstIsWhole ==
  ASSUME NEW p \in Nat, NEW q \in Nat, p <= q, NEW o \in Nat, o <= PageSize
  PROVE  /\ Whole(Chunk(p, 0))
         /\ Chunk(p, 0) # <<>> => Covers(Chunk(p, 0), o, q)
<1> DEFINE s == Chunk(p, 0)
<1>1. PageSize \in Nat
  BY HistoryAssumption
<1>2. Seen(s) = {i \in 1 .. p : i + 0 <= p /\ p < i + 0 + PageSize} /\ (s # <<>> => Head(s) = p - 0)
  BY ChunkHolds, 0 \in Nat
<1>3. s = <<>> => Seen(s) = {}
  BY DEF Seen
<1> HIDE DEF s
<1>4. Whole(s)
  BY <1>1, <1>2, <1>3 DEF Whole
<1>5. s # <<>> => Covers(s, o, q)
  BY <1>1, <1>2 DEF Covers
<1> QED
  BY <1>4, <1>5 DEF s

(* An answer for the rows after an offset, of a ledger that may have grown *)
(* since the list was read, leaves no gap: the rows it lacks are listed.   *)
LEMMA MoreIsWhole ==
  ASSUME NEW s \in Seq(Nat), s # <<>>, Head(s) \in Nat,
         NEW p \in Nat, NEW q \in Nat, p <= q, NEW o \in Nat, NEW o2 \in Nat, o2 <= o + PageSize,
         Whole(s), Covers(s, o, p)
  PROVE  Whole(s \o Chunk(p, o)) /\ Covers(s \o Chunk(p, o), o2, q)
<1> DEFINE t == Chunk(p, o)
<1>1. PageSize \in Nat
  BY HistoryAssumption
<1>2. t \in Seq(Nat) /\ Seen(t) = {i \in 1 .. p : i + o <= p /\ p < i + o + PageSize}
  <2>1. t \in Seq(1 .. p) /\ Seen(t) = {i \in 1 .. p : i + o <= p /\ p < i + o + PageSize}
    BY ChunkHolds
  <2> HIDE DEF t
  <2> QED
    BY <2>1
<1> HIDE DEF t
<1>3. Seen(s \o t) = Seen(s) \cup Seen(t) /\ Head(s \o t) = Head(s)
  BY <1>2, SeenTogether
<1>4. ASSUME NEW i \in Seen(t), NEW j \in i .. Head(s)
      PROVE  j \in Seen(s) \cup Seen(t)
  <2>1. i \in 1 .. p /\ i + o <= p /\ p < i + o + PageSize
    BY <1>2
  <2>2. j \in 1 .. Head(s)
    BY <2>1
  <2>3. CASE j + o > p
    BY <2>2, <2>3 DEF Covers
  <2>4. CASE j + o <= p
    BY <1>1, <1>2, <2>1, <2>2, <2>4
  <2> QED
    BY <2>2, <2>3, <2>4
<1>5. Whole(s \o t)
  BY <1>3, <1>4 DEF Whole
<1>6. ASSUME NEW i \in 1 .. Head(s), i + o2 > q
      PROVE  i \in Seen(s) \cup Seen(t)
  <2>1. CASE i + o > p
    BY <2>1 DEF Covers
  <2>2. CASE i + o <= p
    BY <1>1, <1>2, <1>6, <2>2
  <2> QED
    BY <2>1, <2>2
<1>7. Covers(s \o t, o2, q)
  BY <1>3, <1>6 DEF Covers
<1> QED
  BY <1>5, <1>7 DEF t

Requests ==
  [kind : {"none", "first", "more"}, tab : Tabs, offset : Nat, listed : Nat,
   rows : {Unread} \cup Seq(1 .. MaxPosted), total : {Unread} \cup 0 .. MaxPosted]

HistoryTyped ==
  /\ posted \in [Tabs -> 0 .. MaxPosted]
  /\ place \in {"elsewhere", "wallet", "history"} /\ tab \in Tabs
  /\ list \in [Tabs -> Lists]
  /\ call \in [Calls -> Requests]

\* The offset of the next request for rows that follow those of a list
After(l) == IF place = "wallet" THEN l.offset ELSE Len(l.rows)

ListSound(t, l, p) ==
  /\ Whole(l.rows)
  /\ l.rows # <<>> => Covers(l.rows, After(l), p)
  /\ t = "points" /\ l.rows # <<>> => l.asked

\* A request for first rows is waited for by a list that shows it is loading; one for more rows
\* by a list that goes no further than its offset.  Their answers are of a ledger as it was.
CallSound(k, l, p) ==
  /\ k.kind = "first" =>
       /\ l.loading /\ k.offset = 0 /\ (k.tab = "points" => l.asked)
       /\ k.rows # Unread => \E q \in 0 .. p : k.rows = Chunk(q, 0)
  /\ k.kind = "more" =>
       /\ l.loadingMore /\ ~l.loading /\ ~l.failed /\ l.rows # <<>> /\ k.offset = After(l)
       /\ k.rows # Unread =>
            \E q \in 0 .. p : k.rows = Chunk(q, k.offset) /\ Covers(l.rows, k.offset, q)

\* A ledger has one request under way.
OneRequest ==
  \A c, d \in Calls :
    call[c].kind # "none" /\ call[d].kind # "none" /\ call[c].tab = call[d].tab => c = d

HistoryInv ==
  /\ HistoryTyped /\ OneRequest
  /\ \A t \in Tabs : ListSound(t, list[t], posted[t])
  /\ \A c \in Calls : CallSound(call[c], list[call[c].tab], posted[call[c].tab])

(* The types of the pages' state, component by component.                  *)
LEMMA HistoryTypesHold == HistoryInv => HistoryTypeOK
<1> SUFFICES ASSUME HistoryInv PROVE HistoryTypeOK
  OBVIOUS
<1>1. \A c \in Calls : call[c] \in Requests
  BY DEF HistoryInv, HistoryTyped
<1>2. \A k \in Requests :
        /\ k.kind \in {"none", "first", "more"} /\ k.tab \in Tabs
        /\ k.offset \in Nat /\ k.listed \in Nat
        /\ k.rows = Unread \/ k.rows \in Seq(1 .. MaxPosted)
        /\ k.total = Unread \/ k.total \in 0 .. MaxPosted
  BY DEF Requests
<1> QED
  BY <1>1, <1>2 DEF HistoryInv, HistoryTyped, HistoryTypeOK

(* The rows of a list are numbers.                                         *)
LEMMA RowsAreNumbers ==
  ASSUME NEW s \in Seq(1 .. MaxPosted)
  PROVE  s \in Seq(Nat) /\ (s # <<>> => Head(s) \in 1 .. MaxPosted)
<1>1. MaxPosted \in Nat
  BY HistoryAssumption
<1>2. s \in Seq(Nat)
  BY <1>1
<1>3. ASSUME s # <<>> PROVE Head(s) \in 1 .. MaxPosted
  <2>1. Len(s) \in Nat /\ Len(s) # 0
    BY <1>3
  <2>2. Head(s) = s[1] /\ 1 \in 1 .. Len(s)
    BY <1>3, <2>1
  <2> QED
    BY <2>2, ElementOfSeq
<1> QED
  BY <1>2, <1>3

(* No row, no gap.                                                         *)
LEMMA NothingSound ==
  ASSUME NEW t, NEW l, NEW p, l.rows = <<>>
  PROVE  ListSound(t, l, p)
<1>1. Seen(<<>>) = {}
  BY DEF Seen
<1> QED
  BY <1>1 DEF ListSound, Whole

(* A ledger that grows is covered no worse.                                *)
LEMMA CoversMore ==
  ASSUME NEW s \in Seq(1 .. MaxPosted), s # <<>>, NEW o \in Nat, NEW p \in Nat, NEW q \in Nat,
         p <= q, Covers(s, o, p)
  PROVE  Covers(s, o, q)
<1>1. Head(s) \in Nat
  BY RowsAreNumbers, HistoryAssumption
<1> QED
  BY <1>1 DEF Covers

(* A row is posted.                                                        *)
LEMMA PostStep ==
  ASSUME HistoryInv, NEW t \in Tabs, Post(t)
  PROVE  HistoryInv'
<1>1. /\ HistoryTyped'
      /\ \A u \in Tabs : posted[u] \in Nat /\ posted'[u] \in Nat /\ posted[u] <= posted'[u]
  BY HistoryAssumption DEF HistoryInv, HistoryTyped, Post
<1>2. OneRequest'
  BY DEF HistoryInv, OneRequest, Post
<1>3. ASSUME NEW u \in Tabs
      PROVE  ListSound(u, list[u], posted[u])'
  <2>1. list[u].rows \in Seq(1 .. MaxPosted) /\ After(list[u]) \in Nat
    BY DEF HistoryInv, HistoryTyped, Lists, After
  <2>2. list[u].rows # <<>> => Covers(list[u].rows, After(list[u]), posted'[u])
    BY <1>1, <2>1, CoversMore DEF HistoryInv, ListSound
  <2> QED
    BY <2>2 DEF HistoryInv, ListSound, After, Post
<1>4. ASSUME NEW c \in Calls
      PROVE  CallSound(call[c], list[call[c].tab], posted[call[c].tab])'
  <2>1. call[c].tab \in Tabs
    BY DEF HistoryInv, HistoryTyped, Requests
  <2>2. 0 .. posted[call[c].tab] \subseteq 0 .. posted'[call[c].tab]
    BY <1>1, <2>1
  <2>3. CallSound(call[c], list[call[c].tab], posted'[call[c].tab])
    BY <2>2 DEF HistoryInv, CallSound
  <2> QED
    BY <2>3 DEF CallSound, After, Post
<1> QED
  BY <1>1, <1>2, <1>3, <1>4 DEF HistoryInv

(* The server reads rows or counts them.                                   *)
LEMMA ServerStep ==
  ASSUME HistoryInv, NEW c \in Calls, ListTransactions(c) \/ CountTransactions(c)
  PROVE  HistoryInv'
<1> DEFINE k == call[c]
           p == posted[k.tab]
           l == list[k.tab]
<1>0. /\ k \in Requests /\ k.tab \in Tabs /\ k.offset \in Nat /\ p \in 0 .. MaxPosted /\ p \in Nat
      /\ call \in [Calls -> Requests]
  BY HistoryAssumption DEF HistoryInv, HistoryTyped, Requests
<1>1. /\ CallSound(k, l, p) /\ ListSound(k.tab, l, p)
  BY <1>0 DEF HistoryInv
<1>2. /\ posted' = posted /\ place' = place /\ tab' = tab /\ list' = list
  BY DEF ListTransactions, CountTransactions
<1>3. PICK k2 \in Requests :
        /\ call' = [call EXCEPT ![c] = k2]
        /\ k2.kind = k.kind /\ k2.tab = k.tab /\ k2.offset = k.offset
        /\ CallSound(k2, l, p)
  <2>1. CASE ListTransactions(c)
    <3> DEFINE rows == Chunk(p, k.offset)
               k2 == [k EXCEPT !.rows = rows]
    <3>1. call' = [call EXCEPT ![c] = k2]
      <4>1. RowsFrom(call[c].tab, call[c].offset) = rows
        BY DEF RowsFrom, Chunk
      <4> HIDE DEF rows
      <4> QED
        BY <2>1, <4>1 DEF ListTransactions
    <3>2. rows \in Seq(1 .. MaxPosted)
      <4>1. rows \in Seq(1 .. p)
        BY <1>0, ChunkHolds
      <4> HIDE DEF rows, p
      <4>2. \A i \in 1 .. p : i \in 1 .. MaxPosted
        BY <1>0, HistoryAssumption
      <4> QED
        BY <4>1, <4>2, SeqMonotonic
    <3>3. k.kind # "none"
      BY <2>1 DEF ListTransactions
    <3>4. rows = Chunk(p, k.offset) /\ p \in 0 .. p
      BY <1>0
    <3> HIDE DEF rows, p, l, k
    <3>5. /\ k2 \in Requests /\ k2.kind = k.kind /\ k2.tab = k.tab /\ k2.offset = k.offset
          /\ k2.rows = rows
      BY <1>0, <3>2 DEF Requests
    <3>6. CallSound(k2, l, p)
      <4> HIDE DEF k2
      <4>1. k2.kind = "more" => l.rows # <<>> /\ Covers(l.rows, k2.offset, p)
        BY <1>1, <3>5 DEF CallSound, ListSound
      <4> QED
        BY <1>1, <3>4, <3>5, <4>1 DEF CallSound
    <3> QED
      BY <3>1, <3>5, <3>6
  <2>2. CASE CountTransactions(c)
    <3> DEFINE k2 == [k EXCEPT !.total = p]
    <3>1. call' = [call EXCEPT ![c] = k2]
      BY <2>2 DEF CountTransactions
    <3> HIDE DEF p, l, k
    <3>2. /\ k2 \in Requests /\ k2.kind = k.kind /\ k2.tab = k.tab /\ k2.offset = k.offset
          /\ k2.rows = k.rows
      BY <1>0 DEF Requests
    <3>3. CallSound(k2, l, p)
      BY <1>1, <3>2 DEF CallSound
    <3> QED
      BY <3>1, <3>2, <3>3
  <2> QED
    BY <2>1, <2>2
<1> HIDE DEF k, l, p
<1>4. /\ call' \in [Calls -> Requests] /\ call'[c] = k2
      /\ \A d \in Calls : call'[d].kind = call[d].kind /\ call'[d].tab = call[d].tab
      /\ \A d \in Calls : d # c => call'[d] = call[d]
  BY <1>0, <1>3 DEF k
<1>5. HistoryTyped' /\ OneRequest'
  BY <1>2, <1>4 DEF HistoryInv, HistoryTyped, OneRequest
<1>6. \A t \in Tabs : ListSound(t, list[t], posted[t])'
  BY <1>2 DEF HistoryInv, ListSound, After
<1>7. ASSUME NEW d \in Calls
      PROVE  CallSound(call[d], list[call[d].tab], posted[call[d].tab])'
  <2>1. CallSound(call'[d], list[call[d].tab], posted[call[d].tab])
    BY <1>3, <1>4 DEF HistoryInv, k, l, p
  <2> QED
    BY <1>2, <1>4, <2>1 DEF CallSound, After
<1> QED
  BY <1>5, <1>6, <1>7 DEF HistoryInv

(* The page sends a request for a ledger that has none under way, or takes *)
(* the answer to the one it has: the other ledger is as it was.            *)
LEMMA OneLedgerChanges ==
  ASSUME HistoryInv, NEW c \in Calls, NEW t \in Tabs, NEW k \in Requests, NEW l \in Lists,
         \A d \in Calls : d # c => call[d].kind = "none" \/ call[d].tab # t,
         k.kind = "none" \/ k.tab = t,
         call' = [call EXCEPT ![c] = k], list' = [list EXCEPT ![t] = l],
         posted' = posted, place' = place, tab' \in Tabs,
         ListSound(t, l, posted[t]), CallSound(k, l, posted[t])
  PROVE  HistoryInv'
<1>1. /\ call' \in [Calls -> Requests] /\ call'[c] = k
      /\ \A d \in Calls : d # c => call'[d] = call[d]
      /\ list' \in [Tabs -> Lists] /\ list'[t] = l
      /\ \A u \in Tabs : u # t => list'[u] = list[u]
  BY DEF HistoryInv, HistoryTyped
<1>2. HistoryTyped' /\ OneRequest'
  BY <1>1 DEF HistoryInv, HistoryTyped, OneRequest
<1>3. ASSUME NEW u \in Tabs
      PROVE  ListSound(u, list[u], posted[u])'
  <2>1. ListSound(u, list'[u], posted[u])
    BY <1>1 DEF HistoryInv
  <2> QED
    BY <2>1 DEF ListSound, After
<1>4. ASSUME NEW d \in Calls
      PROVE  CallSound(call[d], list[call[d].tab], posted[call[d].tab])'
  <2>1. CASE call'[d].kind = "none"
    BY <2>1 DEF CallSound
  <2>2. CASE call'[d].kind # "none"
    <3>1. CallSound(call'[d], list'[call'[d].tab], posted[call'[d].tab])
      <4>1. CASE d = c
        BY <1>1, <2>2, <4>1
      <4>2. CASE d # c
        <5>1. call[d].tab \in Tabs
          BY DEF HistoryInv, HistoryTyped, Requests
        <5>2. call'[d] = call[d] /\ list'[call[d].tab] = list[call[d].tab]
          BY <1>1, <2>2, <4>2, <5>1
        <5> QED
          BY <5>2 DEF HistoryInv
      <4> QED
        BY <4>1, <4>2
    <3> QED
      BY <3>1 DEF CallSound, After
  <2> QED
    BY <2>1, <2>2
<1> QED
  BY <1>2, <1>3, <1>4 DEF HistoryInv

(* A request that is sent is for rows that were not read yet.              *)
LEMMA RequestsAreTyped ==
  ASSUME HistoryInv, NEW kind \in {"first", "more"}, NEW t \in Tabs
  PROVE  /\ Request(kind, t) \in Requests
         /\ Request(kind, t).kind = kind /\ Request(kind, t).tab = t
         /\ Request(kind, t).rows = Unread
         /\ Request(kind, t).offset = IF kind = "first" THEN 0 ELSE After(list[t])
<1>1. /\ list[t].offset \in Nat /\ Len(list[t].rows) \in Nat /\ list[t].rows \in Seq(1 .. MaxPosted)
  BY LenProperties DEF HistoryInv, HistoryTyped, Lists
<1> DEFINE o == IF kind = "first" THEN 0
                ELSE IF place = "wallet" THEN list[t].offset ELSE Len(list[t].rows)
<1>2. o \in Nat /\ o = IF kind = "first" THEN 0 ELSE After(list[t])
  BY <1>1 DEF After
<1>3. Request(kind, t) = [NoCall EXCEPT !.kind = kind, !.tab = t, !.listed = Len(list[t].rows),
                                        !.offset = o]
  BY DEF Request
<1> HIDE DEF o
<1> QED
  BY <1>1, <1>2, <1>3 DEF NoCall, Requests

(* A tab is shown, its ledger is asked for again, or for more of its rows. *)
LEMMA AskStep ==
  ASSUME HistoryInv, NEW c \in Calls,
         (\E t \in Tabs : SwitchTab(t, c)) \/ Retry(c) \/ LoadMore(c)
  PROVE  HistoryInv'
<1>0. tab \in Tabs /\ list \in [Tabs -> Lists] /\ call \in [Calls -> Requests]
  BY DEF HistoryInv, HistoryTyped
<1>1. ASSUME NEW t \in Tabs, ~list[t].loading, StartLoading(t), Send(c, "first", t),
             place = "wallet" => list[t].rows = <<>> \/ list[t].failed,
             place # "wallet" => (t = "points" /\ ~list[t].asked) \/ list[t].failed,
             tab' \in Tabs, UNCHANGED <<posted, place>>
      PROVE  HistoryInv'
  <2> DEFINE l == [list[t] EXCEPT !.loading = TRUE, !.failed = FALSE, !.asked = TRUE]
             k == Request("first", t)
  <2>1. list' = [list EXCEPT ![t] = l] /\ call' = [call EXCEPT ![c] = k]
    BY <1>1 DEF StartLoading, Send
  <2>2. /\ l \in Lists /\ l.rows = list[t].rows /\ l.offset = list[t].offset
        /\ l.loading /\ l.asked
    BY <1>0 DEF Lists
  <2>3. k \in Requests /\ k.kind = "first" /\ k.tab = t /\ k.rows = Unread /\ k.offset = 0
    BY RequestsAreTyped
  <2> HIDE DEF l, k
  <2>4. CallSound(k, l, posted[t])
    BY <2>2, <2>3 DEF CallSound
  <2>5. ListSound(t, l, posted[t])
    BY <2>2 DEF HistoryInv, ListSound, After
  <2>6. ASSUME NEW d \in Calls, call[d].tab = t
        PROVE  call[d].kind = "none"
    <3>1. CallSound(call[d], list[t], posted[t]) /\ ListSound(t, list[t], posted[t])
      BY <2>6 DEF HistoryInv
    <3>2. call[d].kind \in {"none", "first", "more"}
      BY <1>0 DEF Requests
    <3> QED
      BY <1>1, <3>1, <3>2 DEF CallSound, ListSound
  <2> QED
    BY <1>1, <2>1, <2>2, <2>3, <2>4, <2>5, <2>6, OneLedgerChanges
<1>2. ASSUME NEW t \in Tabs, SwitchTab(t, c), MustLoad(t)
      PROVE  HistoryInv'
  BY <1>1, <1>2 DEF SwitchTab, MustLoad
<1>3. ASSUME NEW t \in Tabs, SwitchTab(t, c), ~MustLoad(t)
      PROVE  HistoryInv'
  BY <1>3 DEF SwitchTab, HistoryInv, HistoryTyped, OneRequest, ListSound, CallSound, After
<1>4. CASE Retry(c)
  BY <1>0, <1>1, <1>4 DEF Retry
<1>5. CASE LoadMore(c)
  <2> DEFINE l == [list[tab] EXCEPT !.loadingMore = TRUE]
             k == Request("more", tab)
  <2>1. /\ list' = [list EXCEPT ![tab] = l] /\ call' = [call EXCEPT ![c] = k]
        /\ UNCHANGED <<posted, place, tab>>
    BY <1>5 DEF LoadMore, Send
  <2>2. ~list[tab].loading /\ ~list[tab].failed /\ list[tab].rows # <<>> /\ ~list[tab].loadingMore
    BY <1>5 DEF LoadMore, MayLoadMore
  <2>3. /\ l \in Lists /\ l.rows = list[tab].rows /\ l.offset = list[tab].offset
        /\ l.loading = list[tab].loading /\ l.failed = list[tab].failed /\ l.loadingMore
        /\ l.asked = list[tab].asked
    BY <1>0 DEF Lists
  <2>4. k \in Requests /\ k.kind = "more" /\ k.tab = tab /\ k.rows = Unread
          /\ k.offset = After(list[tab])
    BY <1>0, RequestsAreTyped
  <2> HIDE DEF l, k
  <2>5. CallSound(k, l, posted[tab])
    BY <2>2, <2>3, <2>4 DEF CallSound, After
  <2>6. ListSound(tab, l, posted[tab])
    BY <1>0, <2>3 DEF HistoryInv, ListSound, After
  <2>7. ASSUME NEW d \in Calls, call[d].tab = tab
        PROVE  call[d].kind = "none"
    <3>1. CallSound(call[d], list[tab], posted[tab])
      BY <2>7 DEF HistoryInv
    <3>2. call[d].kind \in {"none", "first", "more"}
      BY <1>0 DEF Requests
    <3> QED
      BY <2>2, <3>1, <3>2 DEF CallSound
  <2> QED
    BY <1>0, <2>1, <2>3, <2>4, <2>5, <2>6, <2>7, OneLedgerChanges
<1> QED
  BY <1>2, <1>3, <1>4, <1>5

(* What an answer leaves to prove: that the list it ends in is sound.      *)
LEMMA AnswerEnds ==
  ASSUME HistoryInv, NEW c \in Calls, call[c].kind # "none", NEW l \in Lists,
         Answered(c, call[c].tab, l), ListSound(call[c].tab, l, posted[call[c].tab])
  PROVE  HistoryInv'
<1> DEFINE t == call[c].tab
<1>1. t \in Tabs /\ tab \in Tabs
  BY DEF HistoryInv, HistoryTyped, Requests
<1>2. \A d \in Calls : d # c => call[d].kind = "none" \/ call[d].tab # t
  BY DEF HistoryInv, OneRequest
<1>3. NoCall \in Requests /\ NoCall.kind = "none"
  BY DEF NoCall, Requests, Tabs
<1>4. CallSound(NoCall, l, posted[t])
  BY <1>3 DEF CallSound
<1>5. /\ call' = [call EXCEPT ![c] = NoCall] /\ list' = [list EXCEPT ![t] = l]
      /\ posted' = posted /\ place' = place /\ tab' \in Tabs
  BY <1>1 DEF Answered
<1> HIDE DEF t
<1>6. ListSound(t, l, posted[t])
  BY DEF t
<1> QED
  BY <1>1, <1>2, <1>3, <1>4, <1>5, <1>6, OneLedgerChanges

(* A page lists what was answered, or an error.                            *)
LEMMA AnswerListed ==
  ASSUME HistoryInv, NEW c \in Calls,
         FirstLoaded(c) \/ MoreLoaded(c) \/ FirstFailed(c) \/ MoreFailed(c)
  PROVE  HistoryInv'
<1> DEFINE k == call[c]
           t == call[c].tab
           l == list[t]
           p == posted[t]
<1>0. /\ k \in Requests /\ t \in Tabs /\ l \in Lists /\ p \in Nat
      /\ PageSize \in Nat /\ MaxPosted \in Nat /\ k.offset \in Nat
  BY HistoryAssumption DEF HistoryInv, HistoryTyped, Requests
<1>1. ListSound(t, l, p) /\ CallSound(k, l, p)
  BY <1>0 DEF HistoryInv
<1>2. CASE FirstFailed(c) \/ MoreFailed(c)
  <2>1. PICK l2 \in Lists : /\ Answered(c, t, l2)
                            /\ l2.rows = l.rows /\ l2.offset = l.offset /\ l2.asked = l.asked
    <3>1. CASE FirstFailed(c)
      <4> DEFINE failed == ~(place = "wallet" /\ t = "points")
      <4>1. Answered(c, t, [l EXCEPT !.loading = FALSE, !.failed = failed])
        BY <3>1 DEF FirstFailed
      <4>2. failed \in BOOLEAN
        OBVIOUS
      <4> HIDE DEF l, t, failed
      <4>3. [l EXCEPT !.loading = FALSE, !.failed = failed] \in Lists
        BY <1>0, <4>2 DEF Lists
      <4> QED
        BY <1>0, <4>1, <4>3 DEF Lists
    <3>2. CASE MoreFailed(c)
      <4>1. Answered(c, t, [l EXCEPT !.loadingMore = FALSE])
        BY <3>2 DEF MoreFailed
      <4> HIDE DEF l, t
      <4>2. [l EXCEPT !.loadingMore = FALSE] \in Lists
        BY <1>0 DEF Lists
      <4> QED
        BY <1>0, <4>1, <4>2 DEF Lists
    <3> QED
      BY <1>2, <3>1, <3>2
  <2>2. ListSound(t, l2, p)
    BY <1>1, <2>1 DEF ListSound, After
  <2>3. call[c].kind # "none"
    BY <1>2 DEF FirstFailed, MoreFailed
  <2> QED
    BY <2>1, <2>2, <2>3, AnswerEnds
<1>3. CASE FirstLoaded(c)
  <2>1. k.kind = "first" /\ k.rows # Unread /\ k.total # Unread
    BY <1>3 DEF FirstLoaded, Read
  <2>2. PICK q \in 0 .. p : k.rows = Chunk(q, 0)
    BY <1>1, <2>1 DEF CallSound
  <2>3. k.rows \in Seq(1 .. MaxPosted) /\ k.total \in 0 .. MaxPosted
    BY <1>0, <2>1 DEF Requests
  <2> DEFINE more == Len(k.rows) < k.total
             l2 == [l EXCEPT !.rows = k.rows, !.total = k.total, !.offset = PageSize,
                             !.more = more, !.loading = FALSE]
  <2>4. Answered(c, t, l2)
    BY <1>3 DEF FirstLoaded
  <2>5. more \in BOOLEAN /\ l.loading /\ (t = "points" => l.asked)
    BY <1>1, <2>1 DEF CallSound
  <2> HIDE DEF more, k, l, p
  <2>6. l2 \in Lists /\ l2.rows = k.rows /\ l2.offset = PageSize /\ l2.asked = l.asked
    BY <1>0, <2>3, <2>5 DEF Lists
  <2> HIDE DEF l2
  <2>7. After(l2) \in Nat /\ After(l2) <= PageSize
    <3>1. Len(Chunk(q, 0)) <= PageSize
      BY <1>0, <2>2, ChunkHolds, 0 \in Nat
    <3>2. Len(l2.rows) \in Nat
      BY <2>3, <2>6, LenProperties
    <3> QED
      BY <1>0, <2>2, <2>6, <3>1, <3>2 DEF After
  <2>8. ListSound(t, l2, p)
    <3>1. /\ Whole(Chunk(q, 0))
          /\ Chunk(q, 0) # <<>> => Covers(Chunk(q, 0), After(l2), p)
      <4>1. q \in Nat /\ q <= p
        BY <1>0, <2>2
      <4> QED
        BY <1>0, <2>7, <4>1, FirstIsWhole
    <3> QED
      BY <2>2, <2>5, <2>6, <3>1 DEF ListSound
  <2>9. call[c].kind # "none"
    BY <2>1 DEF k
  <2> QED
    BY <2>4, <2>6, <2>8, <2>9, AnswerEnds DEF p
<1>4. CASE MoreLoaded(c)
  <2>1. k.kind = "more" /\ k.rows # Unread /\ k.total # Unread
    BY <1>4 DEF MoreLoaded, Read
  <2>2. PICK q \in 0 .. p : k.rows = Chunk(q, k.offset) /\ Covers(l.rows, k.offset, q)
    BY <1>1, <2>1 DEF CallSound
  <2>3. k.rows \in Seq(1 .. MaxPosted) /\ k.total \in 0 .. MaxPosted /\ k.listed \in Nat
          /\ l.rows \in Seq(1 .. MaxPosted) /\ l.offset \in Nat /\ l.total \in 0 .. MaxPosted
    BY <1>0, <2>1 DEF Requests, Lists
  <2>4. l.rows # <<>> /\ k.offset = After(l)
    BY <1>1, <2>1 DEF CallSound
  <2> DEFINE more == k.listed + Len(k.rows) < k.total
             rows == l.rows \o k.rows
             offset == l.offset + PageSize
             total == IF place = "wallet" THEN l.total ELSE k.total
             l2 == [l EXCEPT !.rows = rows, !.total = total, !.offset = offset,
                             !.more = more, !.loadingMore = FALSE]
  <2>5. Answered(c, t, l2)
    BY <1>4 DEF MoreLoaded
  <2>6. /\ more \in BOOLEAN /\ rows \in Seq(1 .. MaxPosted) /\ offset \in Nat
        /\ total \in 0 .. MaxPosted
        /\ rows = l.rows \o Chunk(q, k.offset) /\ offset = l.offset + PageSize
    BY <1>0, <2>2, <2>3, ConcatProperties
  <2> HIDE DEF more, rows, offset, total, k, l, p
  <2>7. l2 \in Lists /\ l2.rows = rows /\ l2.offset = offset /\ l2.asked = l.asked
    BY <1>0, <2>6 DEF Lists
  <2> HIDE DEF l2
  <2>8. /\ l.rows \in Seq(Nat) /\ Head(l.rows) \in Nat /\ k.rows \in Seq(Nat)
    BY <1>0, <2>3, <2>4, RowsAreNumbers
  <2>9. q \in Nat /\ q <= p
    BY <1>0, <2>2
  <2>10. Len(rows) = Len(l.rows) + Len(k.rows) /\ rows # <<>> /\ Len(k.rows) <= PageSize
           /\ Len(l.rows) \in Nat /\ Len(k.rows) \in Nat
    <3>1. Len(l.rows \o k.rows) = Len(l.rows) + Len(k.rows) /\ l.rows \o k.rows # <<>>
      BY <2>4, <2>8, SeenTogether
    <3>2. Len(k.rows) <= PageSize
      BY <1>0, <2>2, <2>9, ChunkHolds
    <3> QED
      BY <2>2, <2>6, <2>8, <3>1, <3>2, LenProperties
  <2>11. After(l2) \in Nat /\ After(l2) <= k.offset + PageSize
    <3>1. CASE place = "wallet"
      <4>1. After(l2) = l.offset + PageSize /\ k.offset = l.offset
        BY <2>4, <2>6, <2>7, <3>1 DEF After
      <4> QED
        BY <1>0, <2>3, <4>1
    <3>2. CASE place # "wallet"
      <4>1. After(l2) = Len(l.rows) + Len(k.rows) /\ k.offset = Len(l.rows)
        BY <2>4, <2>7, <2>10, <3>2 DEF After
      <4>2. \A a, b, n \in Nat : b <= n => a + b \in Nat /\ a + b <= a + n
        OBVIOUS
      <4>3. /\ Len(l.rows) + Len(k.rows) \in Nat
            /\ Len(l.rows) + Len(k.rows) <= Len(l.rows) + PageSize
        BY <1>0, <2>10, <4>2
      <4> QED
        BY ONLY <4>1, <4>3
    <3> QED
      BY <3>1, <3>2
  <2>12. Whole(l.rows) /\ (t = "points" => l.asked)
    BY <1>1, <2>4 DEF ListSound
  <2>13. Whole(rows) /\ Covers(rows, After(l2), p)
    BY <1>0, <2>2, <2>4, <2>6, <2>8, <2>9, <2>11, <2>12, MoreIsWhole
  <2>14. ListSound(t, l2, p)
    BY <2>7, <2>12, <2>13 DEF ListSound
  <2>15. call[c].kind # "none"
    BY <2>1 DEF k
  <2> QED
    BY <2>5, <2>7, <2>14, <2>15, AnswerEnds DEF p
<1> QED
  BY <1>2, <1>3, <1>4

(* A page opens with nothing listed and the first rows asked for.          *)
LEMMA OpenStep ==
  ASSUME HistoryInv, NEW c \in Calls, NEW p \in {"wallet", "history"}, Open(p, c)
  PROVE  HistoryInv'
<1> DEFINE first == [NoCall EXCEPT !.kind = "first"]
           loading(t) == [EmptyList EXCEPT !.loading = (t = "tokens")]
<1>1. /\ first \in Requests /\ NoCall \in Requests
      /\ first.kind = "first" /\ first.tab = "tokens" /\ first.rows = Unread /\ first.offset = 0
      /\ NoCall.kind = "none" /\ NoCall.tab = "tokens"
  BY DEF NoCall, Requests, Tabs
<1>2. \A t : loading(t) \in Lists /\ loading(t).rows = <<>> /\ loading(t).loading = (t = "tokens")
  <2>1. \A b \in BOOLEAN : [EmptyList EXCEPT !.loading = b] \in Lists
    <3>1. <<>> \in Seq(1 .. MaxPosted) /\ 0 \in 0 .. MaxPosted
      BY HistoryAssumption
    <3>2. EmptyList \in Lists
      BY <3>1 DEF EmptyList, Lists
    <3>3. \A l \in Lists, b \in BOOLEAN : [l EXCEPT !.loading = b] \in Lists
      BY DEF Lists
    <3> QED
      BY <3>2, <3>3
  <2>2. \A b : [EmptyList EXCEPT !.loading = b].rows = <<>>
                 /\ [EmptyList EXCEPT !.loading = b].loading = b
    BY DEF EmptyList
  <2> QED
    BY <2>1, <2>2
<1>3. /\ list' = [t \in Tabs |-> loading(t)]
      /\ call' = [d \in Calls |-> IF d = c THEN first ELSE NoCall]
      /\ posted' = posted /\ place' = p /\ tab' = "tokens"
  BY DEF Open
<1> HIDE DEF first, loading
<1>4. HistoryTyped'
  BY <1>1, <1>2, <1>3 DEF HistoryInv, HistoryTyped, Tabs
<1>5. OneRequest'
  BY <1>1, <1>3 DEF OneRequest
<1>6. \A t \in Tabs : list'[t].rows = <<>>
  BY <1>2, <1>3
<1>7. \A t \in Tabs : ListSound(t, list[t], posted[t])'
  <2>1. Seen(<<>>) = {}
    BY DEF Seen
  <2> QED
    BY <1>6, <2>1 DEF ListSound, Whole
<1>8. ASSUME NEW d \in Calls
      PROVE  CallSound(call[d], list[call[d].tab], posted[call[d].tab])'
  <2>1. call'[d] = first \/ call'[d] = NoCall
    BY <1>3
  <2>2. call'[d].tab = "tokens" /\ list'["tokens"].loading
    BY <1>1, <1>2, <1>3, <2>1 DEF Tabs
  <2> QED
    BY <1>1, <2>1, <2>2 DEF CallSound
<1> QED
  BY <1>4, <1>5, <1>7, <1>8 DEF HistoryInv

(* Every step keeps what is listed without a gap.                          *)
LEMMA HistoryStep ==
  ASSUME HistoryInv, [HistoryNext]_historyVars
  PROVE  HistoryInv'
<1>1. CASE UNCHANGED historyVars
  BY <1>1 DEF historyVars, HistoryInv, HistoryTyped, OneRequest, ListSound, CallSound, After
<1> QED
  BY <1>1, PostStep, ServerStep, AskStep, AnswerListed, OpenStep DEF HistoryNext

(* Nothing is listed at first.                                             *)
LEMMA HistoryStarts ==
  ASSUME HistoryInit
  PROVE  HistoryInv
<1>1. /\ NoCall \in Requests /\ NoCall.kind = "none" /\ NoCall.tab = "tokens"
      /\ EmptyList \in Lists /\ EmptyList.rows = <<>>
  BY HistoryAssumption DEF NoCall, Requests, Tabs, EmptyList, Lists
<1>2. HistoryTyped /\ OneRequest
  BY <1>1, HistoryAssumption DEF HistoryInit, HistoryTyped, OneRequest, Tabs
<1>3. \A t \in Tabs : ListSound(t, list[t], posted[t])
  BY <1>1, NothingSound DEF HistoryInit
<1>4. \A c \in Calls : CallSound(call[c], list[call[c].tab], posted[call[c].tab])
  BY <1>1 DEF HistoryInit, CallSound
<1> QED
  BY <1>2, <1>3, <1>4 DEF HistoryInv

(* NothingSkipped for any number of rows, of requests and of rows in an    *)
(* answer: whatever is posted between two answers, the rows listed go on   *)
(* without a gap from the newest one shown.                                *)
THEOREM HistoryIsWhole == Spec => []NothingSkipped
<1>1. Init => HistoryInv
  BY HistoryStarts DEF Init
<1>2. HistoryInv /\ [Next]_pagesVars => HistoryInv'
  BY HistoryStep DEF Next, pagesVars, historyVars
<1>3. HistoryInv => NothingSkipped
  BY DEF HistoryInv, ListSound, Whole, Seen, NothingSkipped
<1> QED
  BY <1>1, <1>2, <1>3, PTL DEF Spec

-----------------------------------------------------------------------------
(* The types of the slip and of the page of predictions *)

\* The part of the slip's types that its invariant leaves out
SlipRest ==
  /\ restoring \in BOOLEAN /\ unsaved \in BOOLEAN
  /\ purse \in 0 .. MaxTokens
  /\ hydrated \in Keys \cup {Unloaded}
  /\ submission \in [phase : {"idle", "placing", "placed"},
                     waiting : SUBSET (Picks \cup {Combined}), failed : BOOLEAN]

(* A submission waits for bets on selections and the accumulator only.     *)
LEMMA SubmissionsTyped ==
  ASSUME SlipInv, SlipRest
  PROVE  /\ NotSubmitting \in [phase : {"idle", "placing", "placed"},
                               waiting : SUBSET (Picks \cup {Combined}), failed : BOOLEAN]
         /\ {p.id : p \in Singles} \cup (IF PlacesAccumulator THEN {Combined} ELSE {})
              \in SUBSET (Picks \cup {Combined})
<1>1. \A p \in Singles : p.id \in Picks
  BY DEF SlipInv, SlipParts, Singles, Selection
<1> QED
  BY <1>1 DEF NotSubmitting

(* Every step of the slip keeps the rest of its types.                     *)
LEMMA SlipRestStep ==
  ASSUME SlipInv, SlipRest, [SlipNext]_slipVars
  PROVE  SlipRest'
<1>0. /\ 0 \in 0 .. MaxTokens
      /\ NotSubmitting \in [phase : {"idle", "placing", "placed"},
                            waiting : SUBSET (Picks \cup {Combined}), failed : BOOLEAN]
  BY SlipAssumption, SubmissionsTyped
<1>1. CASE RunEffects \/ Reload
  <2>1. CASE RunEffects
    BY <2>1 DEF SlipInv, SlipParts, SlipRest, RunEffects
  <2>2. CASE Reload
    BY <1>0, <2>2 DEF SlipRest, Reload
  <2> QED
    BY <1>1, <2>1, <2>2
<1>2. CASE UserActs
  <2>1. ASSUME NEW s, Change(s)
        PROVE  SlipRest'
    BY <2>1 DEF SlipRest, Change
  <2>2. CASE SubmitSlip
    <3> DEFINE waiting == {p.id : p \in Singles} \cup (IF PlacesAccumulator THEN {Combined} ELSE {})
    <3>1. submission' = [phase |-> "placing", failed |-> FALSE, waiting |-> waiting]
      BY <2>2 DEF SubmitSlip
    <3>2. waiting \in SUBSET (Picks \cup {Combined})
      BY SubmissionsTyped
    <3> HIDE DEF waiting
    <3> QED
      BY <2>2, <3>1, <3>2 DEF SlipRest, SubmitSlip
  <2>3. CASE Logout \/ RefreshUser
    BY <1>0, <2>3 DEF SlipRest, Logout, RefreshUser, Show
  <2>4. ASSUME NEW user \in Punters, NEW tokens \in 0 .. MaxTokens, Login(user, tokens)
        PROVE  SlipRest'
    BY <2>4 DEF SlipRest, Login, Show
  <2> QED
    BY <1>2, <2>1, <2>2, <2>3, <2>4
       DEF UserActs, AddSelection, RemoveSelection, ToggleSingle, ClearSlip, ToggleAccumulator,
           SetSingleStake, SetAccumulatorStake
<1>3. CASE AnswerComes
  <2>1. CASE AllAnswered \/ RefreshWithoutToken \/ SubmissionEnds \/ RefreshFailed
    <3>1. CASE AllAnswered
      BY <3>1 DEF SlipRest, AllAnswered
    <3>2. CASE RefreshWithoutToken
      BY <1>0, <3>2 DEF SlipRest, RefreshWithoutToken
    <3>3. CASE SubmissionEnds
      BY <1>0, <3>3 DEF SlipRest, SubmissionEnds
    <3>4. CASE RefreshFailed
      BY <1>0, <3>4 DEF SlipRest, RefreshFailed, Show
    <3> QED
      BY <2>1, <3>1, <3>2, <3>3, <3>4
  <2>2. ASSUME NEW bet \in Picks \cup {Combined}, NEW failed \in BOOLEAN, BetAnswered(bet, failed)
        PROVE  SlipRest'
    <3>1. submission' = [submission EXCEPT !.waiting = @ \ {bet},
                                           !.failed = submission.failed \/ failed]
      BY <2>2 DEF BetAnswered
    <3>2. \A b \in BOOLEAN :
            [submission EXCEPT !.waiting = @ \ {bet}, !.failed = b]
              \in [phase : {"idle", "placing", "placed"},
                   waiting : SUBSET (Picks \cup {Combined}), failed : BOOLEAN]
      BY DEF SlipRest
    <3>3. (submission.failed \/ failed) \in BOOLEAN
      OBVIOUS
    <3>4. submission' \in [phase : {"idle", "placing", "placed"},
                           waiting : SUBSET (Picks \cup {Combined}), failed : BOOLEAN]
      BY <3>1, <3>2, <3>3
    <3> QED
      BY <2>2, <3>4 DEF SlipRest, BetAnswered
  <2>3. ASSUME NEW tokens \in 0 .. MaxTokens, RefreshAnswered(tokens) \/ RestoreSession(tokens)
        PROVE  SlipRest'
    BY <2>3 DEF SlipRest, RefreshAnswered, RestoreSession, Show
  <2> QED
    BY <1>3, <2>1, <2>2, <2>3 DEF AnswerComes
<1>4. CASE UNCHANGED slipVars
  BY <1>4 DEF SlipRest, slipVars
<1> QED
  BY <1>1, <1>2, <1>3, <1>4 DEF SlipNext

LoadRecords == [asks : Filters \cup {NoFilter}, silent : BOOLEAN, read : BOOLEAN, rows : Listings]

Cashouts == [step : {"none", "quoted", "sent", "left", "done", "refused"}, filter : Filters]

(* What the page of predictions puts into its state is well typed.         *)
LEMMA ListsTyped ==
  ASSUME PicksTypeOK
  PROVE  /\ Nothing \in Listings /\ NoLoad \in LoadRecords /\ NoCashout \in Cashouts
         /\ \A f : RowsOf(f) \in Listings
         /\ \A cards : Hidden(cards) \in [Placed -> Cashouts]
         /\ \A l : PollAfter(l) \in Filters \cup {NoFilter}
         /\ \A l \in LoadRecords, f \in Filters \cup {NoFilter}, b \in BOOLEAN, m \in Listings :
              /\ [l EXCEPT !.asks = f, !.silent = b] \in LoadRecords
              /\ [l EXCEPT !.asks = f] \in LoadRecords
              /\ [l EXCEPT !.read = TRUE, !.rows = m] \in LoadRecords
         /\ \A k \in Cashouts, s \in {"none", "quoted", "sent", "left", "done", "refused"} :
              [k EXCEPT !.step = s] \in Cashouts
<1>1. Nothing \in Listings
  BY DEF Nothing, Listings
<1>2. NoLoad \in LoadRecords /\ NoCashout \in Cashouts
  BY <1>1, PicksAssumption DEF NoLoad, LoadRecords, NoCashout, Cashouts
<1>3. \A f : RowsOf(f) \in Listings
  BY DEF PicksTypeOK, RowsOf, Listings
<1>4. \A cards : Hidden(cards) \in [Placed -> Cashouts]
  BY <1>2 DEF PicksTypeOK, Hidden, Cashouts
<1>5. \A l : PollAfter(l) \in Filters \cup {NoFilter}
  BY DEF PicksTypeOK, PollAfter
<1>6. \A l \in LoadRecords, f \in Filters \cup {NoFilter}, b \in BOOLEAN, m \in Listings :
        /\ [l EXCEPT !.asks = f, !.silent = b] \in LoadRecords
        /\ [l EXCEPT !.asks = f] \in LoadRecords
        /\ [l EXCEPT !.read = TRUE, !.rows = m] \in LoadRecords
  BY DEF LoadRecords
<1>7. \A k \in Cashouts, s \in {"none", "quoted", "sent", "left", "done", "refused"} :
        [k EXCEPT !.step = s] \in Cashouts
  BY DEF Cashouts
<1> QED
  BY <1>1, <1>2, <1>3, <1>4, <1>5, <1>6, <1>7

(* A request for the list is well typed.                                   *)
LEMMA AskTyped ==
  ASSUME PicksTypeOK, NEW c \in Loads, NEW f \in Filters \cup {NoFilter}, NEW silent \in BOOLEAN,
         AskFor(c, f, silent)
  PROVE  /\ load' \in [Loads -> LoadRecords] /\ cashing' \in [Placed -> Cashouts]
         /\ spinner' \in BOOLEAN /\ error' \in BOOLEAN
<1>1. load \in [Loads -> LoadRecords] /\ cashing \in [Placed -> Cashouts]
  BY DEF PicksTypeOK, LoadRecords, Cashouts
<1>2. [NoLoad EXCEPT !.asks = f, !.silent = silent] \in LoadRecords
        /\ Hidden(Placed) \in [Placed -> Cashouts]
  BY ListsTyped
<1>3. load' \in [Loads -> LoadRecords]
  BY <1>1, <1>2 DEF AskFor
<1>4. cashing' \in [Placed -> Cashouts]
  BY <1>1, <1>2 DEF AskFor
<1>5. spinner' \in BOOLEAN /\ error' \in BOOLEAN
  BY DEF AskFor
<1> QED
  BY <1>3, <1>4, <1>5

(* Every step of the page of predictions keeps its types.                  *)
LEMMA PicksStep ==
  ASSUME PicksTypeOK, [PicksNext]_picksVars
  PROVE  PicksTypeOK'
<1> DEFINE Rest == /\ server \in [Placed -> Statuses]
                   /\ listing \in {"closed", "singles", "accumulators"}
                   /\ filter \in Filters /\ poll \in Filters \cup {NoFilter}
                   /\ listed \in Listings
                   /\ spinner \in BOOLEAN /\ error \in BOOLEAN
<1>0. /\ Rest /\ load \in [Loads -> LoadRecords] /\ cashing \in [Placed -> Cashouts]
      /\ "all" \in Filters /\ "PENDING" \in Statuses /\ "CASHED_OUT" \in Statuses
      /\ Results \subseteq Statuses
  BY PicksAssumption DEF PicksTypeOK, LoadRecords, Cashouts, Statuses
<1> SUFFICES Rest' /\ load' \in [Loads -> LoadRecords] /\ cashing' \in [Placed -> Cashouts]
  BY DEF PicksTypeOK, LoadRecords, Cashouts
<1>1. ASSUME NEW b \in Placed, NEW s \in Statuses, Decide(b, s)
      PROVE  Rest' /\ load' \in [Loads -> LoadRecords] /\ cashing' \in [Placed -> Cashouts]
  BY <1>0, <1>1 DEF Decide
<1>2. ASSUME NEW b \in Placed, CashOut(b)
      PROVE  Rest' /\ load' \in [Loads -> LoadRecords] /\ cashing' \in [Placed -> Cashouts]
  <2>1. /\ server' = server \/ server' = [server EXCEPT ![b] = "CASHED_OUT"]
        /\ \/ cashing' = [cashing EXCEPT ![b] = NoCashout]
           \/ cashing' = [cashing EXCEPT ![b].step = "done"]
           \/ cashing' = [cashing EXCEPT ![b].step = "refused"]
        /\ UNCHANGED <<listing, filter, listed, spinner, error, poll, load>>
    BY <1>2 DEF CashOut
  <2>2. \A s \in {"done", "refused"} : [cashing[b] EXCEPT !.step = s] \in Cashouts
    BY <1>0, ListsTyped
  <2>3. cashing' \in [Placed -> Cashouts]
    BY <1>0, <2>1, <2>2, ListsTyped
  <2> QED
    BY <1>0, <2>1, <2>3
<1>3. ASSUME NEW b \in Placed, CheckValue(b) \/ SendCashout(b)
      PROVE  Rest' /\ load' \in [Loads -> LoadRecords] /\ cashing' \in [Placed -> Cashouts]
  <2>1. [cashing[b] EXCEPT !.step = "quoted"] \in Cashouts
    BY <1>0, ListsTyped
  <2>2. [step |-> "sent", filter |-> filter] \in Cashouts
    BY <1>0 DEF Cashouts
  <2>3. cashing' = [cashing EXCEPT ![b] = [cashing[b] EXCEPT !.step = "quoted"]]
          \/ cashing' = [cashing EXCEPT ![b] = [step |-> "sent", filter |-> filter]]
    BY <1>3 DEF CheckValue, SendCashout
  <2>4. cashing' \in [Placed -> Cashouts]
    BY <1>0, <2>1, <2>2, <2>3
  <2> QED
    BY <1>0, <1>3, <2>4 DEF CheckValue, SendCashout
<1>4. ASSUME NEW b \in Placed, CashoutAnswered(b)
      PROVE  Rest' /\ load' \in [Loads -> LoadRecords] /\ cashing' \in [Placed -> Cashouts]
  <2>1. CashedOut(b) \in Listings
    BY <1>0 DEF CashedOut, Listings
  <2>2. listed' \in Listings /\ poll' \in Filters \cup {NoFilter}
    BY <1>0, <1>4, <2>1, ListsTyped DEF CashoutAnswered, ShowList
  <2>3. cashing' \in [Placed -> Cashouts]
    BY <1>0, <1>4, ListsTyped DEF CashoutAnswered
  <2> QED
    BY <1>0, <1>4, <2>2, <2>3 DEF CashoutAnswered
<1>5. CASE ClosePicks \/ ShowAccumulators
  <2>1. CASE ClosePicks
    <3>1. cashing' \in [Placed -> Cashouts]
      <4>1. [NoCashout EXCEPT !.step = "left"] \in Cashouts
        BY ListsTyped
      <4>2. cashing' = [b \in Placed |-> IF cashing[b].step \in {"sent", "left"}
                                        THEN [NoCashout EXCEPT !.step = "left"] ELSE NoCashout]
        BY <2>1 DEF ClosePicks, Reset
      <4> QED
        BY <4>1, <4>2, ListsTyped
    <3>2. load' \in [Loads -> LoadRecords]
      BY <2>1, ListsTyped DEF ClosePicks
    <3> QED
      BY <1>0, <2>1, <3>1, <3>2, ListsTyped DEF ClosePicks, Reset
  <2>2. CASE ShowAccumulators
    BY <1>0, <2>2, ListsTyped DEF ShowAccumulators
  <2> QED
    BY <1>5, <2>1, <2>2
<1>6. ASSUME NEW c \in Loads, OpenPicks(c)
      PROVE  Rest' /\ load' \in [Loads -> LoadRecords] /\ cashing' \in [Placed -> Cashouts]
  <2>1. cashing' \in [Placed -> Cashouts]
    <3>1. [NoCashout EXCEPT !.step = "left"] \in Cashouts
      BY ListsTyped
    <3>2. cashing' = [b \in Placed |-> IF cashing[b].step \in {"sent", "left"}
                                      THEN [NoCashout EXCEPT !.step = "left"] ELSE NoCashout]
      BY <1>6 DEF OpenPicks, Reset
    <3> QED
      BY <3>1, <3>2, ListsTyped
  <2>2. load' \in [Loads -> LoadRecords]
    <3>1. [NoLoad EXCEPT !.asks = "all"] \in LoadRecords
      BY <1>0, ListsTyped
    <3>2. load' = [[d \in Loads |-> NoLoad] EXCEPT ![c] = [NoLoad EXCEPT !.asks = "all"]]
      BY <1>6 DEF OpenPicks
    <3> QED
      BY <3>1, <3>2, ListsTyped
  <2> QED
    BY <1>0, <1>6, <2>1, <2>2, ListsTyped DEF OpenPicks, Reset
<1>7. ASSUME NEW c \in Loads, NEW f \in Filters, ChooseFilter(f, c)
      PROVE  Rest' /\ load' \in [Loads -> LoadRecords] /\ cashing' \in [Placed -> Cashouts]
  BY <1>0, <1>7, AskTyped DEF ChooseFilter
<1>8. ASSUME NEW c \in Loads, ShowSingles(c) \/ RetryLoad(c) \/ Poll(c)
      PROVE  Rest' /\ load' \in [Loads -> LoadRecords] /\ cashing' \in [Placed -> Cashouts]
  BY <1>0, <1>8, AskTyped DEF ShowSingles, RetryLoad, Poll
<1>9. ASSUME NEW c \in Loads, GetByUser(c)
      PROVE  Rest' /\ load' \in [Loads -> LoadRecords] /\ cashing' \in [Placed -> Cashouts]
  <2> DEFINE rows == RowsOf(load[c].asks)
  <2>1. rows \in Listings
    BY ListsTyped
  <2>2. load' = [load EXCEPT ![c] = [load[c] EXCEPT !.read = TRUE, !.rows = rows]]
    BY <1>0, <1>9 DEF GetByUser
  <2> HIDE DEF rows
  <2>3. [load[c] EXCEPT !.read = TRUE, !.rows = rows] \in LoadRecords
    BY <1>0, <2>1, ListsTyped
  <2>4. load' \in [Loads -> LoadRecords]
    BY <1>0, <2>2, <2>3
  <2> QED
    BY <1>0, <1>9, <2>4 DEF GetByUser
<1>10. ASSUME NEW c \in Loads, Loaded(c) \/ LoadFails(c)
       PROVE  Rest' /\ load' \in [Loads -> LoadRecords] /\ cashing' \in [Placed -> Cashouts]
  <2>1. EndLoad(c)
    BY <1>10 DEF Loaded, LoadFails
  <2>2. load' \in [Loads -> LoadRecords] /\ spinner' \in BOOLEAN
    BY <1>0, <2>1, ListsTyped DEF EndLoad
  <2>3. load[c].rows \in Listings
    BY <1>0 DEF LoadRecords
  <2>4. /\ listed' \in Listings /\ poll' \in Filters \cup {NoFilter} /\ error' \in BOOLEAN
        /\ cashing' \in [Placed -> Cashouts]
    <3>1. CASE Loaded(c)
      BY <1>0, <2>3, <3>1, ListsTyped DEF Loaded, ShowList
    <3>2. CASE LoadFails(c)
      BY <1>0, <3>2, ListsTyped DEF LoadFails
    <3> QED
      BY <1>10, <3>1, <3>2
  <2> QED
    BY <1>0, <2>1, <2>2, <2>4 DEF EndLoad
<1>11. CASE UNCHANGED picksVars
  BY <1>0, <1>11 DEF picksVars
<1> HIDE DEF Rest
<1> QED
  BY <1>1, <1>2, <1>3, <1>4, <1>5, <1>6, <1>7, <1>8, <1>9, <1>10, <1>11 DEF PicksNext

(* The page of predictions starts well typed.                              *)
LEMMA PicksStart ==
  ASSUME PicksInit
  PROVE  PicksTypeOK
<1>1. /\ Nothing \in Listings /\ "all" \in Filters /\ "PENDING" \in Statuses
  BY PicksAssumption DEF Nothing, Listings, Statuses
<1>2. NoLoad \in LoadRecords /\ NoCashout \in Cashouts
  BY <1>1 DEF NoLoad, LoadRecords, NoCashout, Cashouts
<1> QED
  BY <1>1, <1>2 DEF PicksInit, PicksTypeOK, LoadRecords, Cashouts

(* The invariants of the slip, with the types that its own leaves out, of  *)
(* the ledgers, the predictions, the frame and the toasts.                 *)
PartsInv == SlipInv /\ SlipRest /\ HistoryInv /\ PicksTypeOK /\ FrameInv /\ ToastsInv

(* PagesTypeOK for all values of the constants: each part of the web       *)
(* application keeps its state well typed, whatever answers come when.     *)
THEOREM PagesTypeCorrect == Spec => []PagesTypeOK
<1>1. Init => PartsInv
  <2> SUFFICES ASSUME Init PROVE PartsInv
    OBVIOUS
  <2>1. SlipInv
    BY DEF Init, SlipInit, SlipInv, SlipParts, OwnSelections, EmptySlip, Keys
  <2>2. SlipRest
    <3>1. 0 \in 0 .. MaxTokens
      BY SlipAssumption
    <3>2. NotSubmitting \in [phase : {"idle", "placing", "placed"},
                             waiting : SUBSET (Picks \cup {Combined}), failed : BOOLEAN]
      BY DEF NotSubmitting
    <3> QED
      BY <3>1, <3>2 DEF Init, SlipInit, SlipRest
  <2>3. ToastsInv
    BY DEF Init, ToastsInit, ToastsInv, ToastsTypeOK, NoToastIsStuck, OnList
  <2> QED
    BY <2>1, <2>2, <2>3, HistoryStarts, PicksStart, FrameInit DEF Init, PartsInv
<1>2. PartsInv /\ [Next]_pagesVars => PartsInv'
  <2> SUFFICES ASSUME PartsInv, [Next]_pagesVars PROVE PartsInv'
    OBVIOUS
  <2>1. /\ [SlipNext]_slipVars /\ [HistoryNext]_historyVars /\ [PicksNext]_picksVars
        /\ [ShellNext]_shellVars /\ [ToastsNext]_toastVars
    BY DEF Next, pagesVars
  <2> QED
    BY <2>1, SlipStep, SlipRestStep, HistoryStep, PicksStep, FrameStep, ToastsStep DEF PartsInv
<1>3. PartsInv => PagesTypeOK
  <2> SUFFICES ASSUME PartsInv PROVE PagesTypeOK
    OBVIOUS
  <2>1. SlipTypeOK
    BY DEF PartsInv, SlipInv, SlipParts, SlipRest, SlipTypeOK, Slip
  <2> QED
    BY <2>1, HistoryTypesHold DEF PartsInv, FrameInv, ToastsInv, PagesTypeOK
<1> QED
  BY <1>1, <1>2, <1>3, PTL DEF Spec
=============================================================================

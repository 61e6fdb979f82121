------------------------------- MODULE Shell -------------------------------
(***************************************************************************)
(* The frame of the web application: the routes and their guards           *)
(* (frontend/src/App.tsx), the forms that sign in (LoginPage, RegisterPage,*)
(* AdminLoginPage), and the header, which loads numbers of the user shown  *)
(* (Layout.tsx).                                                           *)
(*                                                                         *)
(* A place is the kind of its path, followed by those that its query       *)
(* redirects to: the place named in the query may have a query of its own, *)
(* and so on.  A guard looks at the user of the moment; requests go on     *)
(* when their page has gone, and navigate when they end.                   *)
(***************************************************************************)
EXTENDS Naturals, Sequences

CONSTANTS
  Accounts,  \* users who may sign in here
  Admins,    \* those of them who are administrators
  Guest,     \* nobody is signed in
  Targets,   \* the paths that a query may name
  Depth,     \* bound: paths in an address, its own and those nested in its query
  Nowhere    \* no layout

\* The paths that no route knows; the second kind begins with "/admin" all the same.
Unknown == {"other", "adminOther"}
Paths == {"login", "adminLogin", "reset", "open", "page", "admin", "root"} \cup Unknown

ASSUME ShellAssumption ==
  /\ Admins \subseteq Accounts /\ Guest \notin Accounts
  /\ Targets \subseteq Paths
  /\ Depth \in Nat \ {0}
  /\ Nowhere \notin {"public", "adminPublic", "none", "open", "protected"}

VARIABLES
  at,       \* the location
  who,      \* the user of AuthContext
  opening,  \* isLoading of AuthContext
  hops,     \* redirects in a row, since a user or an answer moved
  form,     \* a sign-in under way
  leaving,  \* a logout from the header or the settings under way
  header    \* the state of the mounted Layout, and its loads under way

shellVars == <<at, who, opening, hops, form, leaving, header>>

Places == Seq(Paths) \ {<<>>}

NoForm == [state |-> "idle", admin |-> FALSE, dest |-> <<"page">>]
Bareheaded == [layout |-> Nowhere, ran |-> Nowhere, loads |-> {}, count |-> Guest]

ShellTypeOK ==
  /\ at \in Places
  /\ who \in Accounts \cup {Guest}
  /\ opening \in BOOLEAN /\ leaving \in BOOLEAN
  /\ hops \in Nat
  /\ form \in [state : {"idle", "asking", "regret"}, admin : BOOLEAN, dest : Places]
  /\ header \in [layout : {"public", "adminPublic", "none", "open", "protected", Nowhere},
                 ran : Accounts \cup {Guest, Nowhere},
                 loads : SUBSET [of : Accounts, cancelled : BOOLEAN],
                 count : Accounts \cup {Guest}]

ShellInit ==
  /\ at = <<"root">> /\ who = Guest /\ opening = TRUE
  /\ hops = 0 /\ form = NoForm /\ leaving = FALSE /\ header = Bareheaded

-----------------------------------------------------------------------------
(* App.tsx *)

Here == Head(at)

\* Mutant: the place asked for keeps the query of the one that asks.
RedirectWithQuery == <<at[2]>> \o Tail(at)

\* The place in the query, with what it has for a query itself
Redirect == Tail(at)

\* What the location asks for once somebody has signed in
SafeRedirect == IF Len(at) > 1 THEN Redirect ELSE <<"page">>
AdminRedirect ==
  IF Len(at) > 1 /\ at[2] \in {"admin", "adminLogin", "adminOther"} THEN Redirect ELSE <<"admin">>

Follow(place) ==
  /\ at' = place /\ hops' = hops + 1
  /\ UNCHANGED <<who, opening, form, leaving, header>>

\* The whole location becomes the redirect.
ProtectedRoute ==
  ~opening /\ Here \in {"page", "root"} /\ who = Guest /\ Follow(<<"login">> \o at)

PublicRoute ==
  ~opening /\ Here = "login" /\ who # Guest /\ Follow(SafeRedirect)

AdminPublicRoute ==
  ~opening /\ Here = "adminLogin" /\ who # Guest
    /\ Follow(IF who \in Admins THEN AdminRedirect ELSE <<"page">>)

AdminProtectedRoute ==
  ~opening /\ Here = "admin" /\ who \notin Admins
    /\ Follow(IF who = Guest THEN <<"adminLogin">> \o at ELSE <<"page">>)

\* The index of "/" and the route for every other path
RedirectingRoute ==
  \/ ~opening /\ Here = "root" /\ who # Guest /\ Follow(<<"page">>)
  \/ Here \in Unknown /\ Follow(<<"root">>)

\* The page at this location is rendered.
LetIn ==
  \/ Here = "reset"
  \/ /\ ~opening
     /\ \/ Here = "open"
        \/ Here \in {"login", "adminLogin"} /\ who = Guest
        \/ Here = "page" /\ who # Guest
        \/ Here = "admin" /\ who \in Admins

-----------------------------------------------------------------------------
(* The user, and the sessions that come and go *)

Addresses == {<<path>> \o q : path \in Paths, q \in UNION {[1 .. n -> Targets] : n \in 0 .. Depth - 1}}

Moved(place) == at' = place /\ hops' = 0

\* A link, or back to an address of before; the forms to sign in link to each other with the
\* redirect that they have.
Click(place) ==
  /\ LetIn
  /\ Moved(place)
  /\ UNCHANGED <<who, opening, form, leaving, header>>

\* The address is typed: the application starts again.
TypeAddress(place) ==
  /\ Moved(place)
  /\ who' = Guest /\ opening' = TRUE /\ form' = NoForm /\ leaving' = FALSE /\ header' = Bareheaded

\* restoreSession
Restored(user) ==
  /\ opening
  /\ opening' = FALSE /\ who' = user /\ hops' = 0
  /\ UNCHANGED <<at, form, leaving, header>>

SubmitForm ==
  /\ LetIn /\ Here \in {"login", "adminLogin"} /\ form = NoForm
  /\ form' = [state |-> "asking", admin |-> Here = "adminLogin",
              dest |-> IF Here = "login" THEN SafeRedirect ELSE AdminRedirect]
  /\ UNCHANGED <<at, who, opening, hops, leaving, header>>

\* The user is shown; a user without the right is signed out again, everybody else is taken to
\* the place asked for, wherever he is by now.
SignedIn(user) ==
  /\ form.state = "asking"
  /\ who' = user /\ hops' = 0
  /\ IF form.admin /\ user \notin Admins
       THEN form' = [form EXCEPT !.state = "regret"] /\ UNCHANGED at
       ELSE form' = NoForm /\ at' = form.dest
  /\ UNCHANGED <<opening, leaving, header>>

SignInFails ==
  /\ form.state = "asking" /\ form' = NoForm
  /\ UNCHANGED <<at, who, opening, hops, leaving, header>>

\* The form's own logout has ended.
Regretted ==
  /\ form.state = "regret"
  /\ form' = NoForm /\ who' = Guest /\ hops' = 0
  /\ UNCHANGED <<at, opening, leaving, header>>

ClickLogout ==
  /\ LetIn /\ who # Guest /\ Here # "admin" /\ ~leaving
  /\ leaving' = TRUE
  /\ UNCHANGED <<at, who, opening, hops, form, header>>

LogoutEnds ==
  /\ leaving
  /\ leaving' = FALSE /\ who' = Guest /\ Moved(<<"login">>)
  /\ UNCHANGED <<opening, form, header>>

\* A profile is refused: refreshUser signs out and stays where it is.
SessionLost ==
  /\ who # Guest
  /\ who' = Guest /\ hops' = 0
  /\ UNCHANGED <<at, opening, form, leaving, header>>

-----------------------------------------------------------------------------
(* Layout.tsx: the header.  Its number is known by the user whose it is.   *)

Layouts == [login |-> "public", adminLogin |-> "adminPublic", reset |-> "none", open |-> "open",
            page |-> "protected"]

LayoutShown == IF LetIn /\ Here # "admin" THEN Layouts[Here] ELSE Nowhere

OnlyHeader == UNCHANGED <<at, who, opening, hops, form, leaving>>

\* Under another guard the layout is a new one; what the old one waits for is cancelled.
MountLayout ==
  /\ header.layout # LayoutShown
  /\ header' = [Bareheaded EXCEPT !.layout = LayoutShown]
  /\ OnlyHeader

EffectLate == header.layout # Nowhere /\ header.layout = LayoutShown /\ header.ran # who

\* The effect of the user shown: what the former one asked for is cancelled.
LoadNumbers ==
  /\ EffectLate
  /\ LET dropped == {[l EXCEPT !.cancelled = TRUE] : l \in header.loads}
     IN  header' = IF who = Guest
                   THEN [header EXCEPT !.ran = who, !.loads = dropped, !.count = Guest]
                   ELSE [header EXCEPT !.ran = who,
                                       !.loads = dropped \cup {[of |-> who, cancelled |-> FALSE]}]
  /\ OnlyHeader

\* Mutant: a cancelled load is shown all the same.
Lands(l) == l \in header.loads

Counted(l) == l \in header.loads /\ ~l.cancelled

\* The number, or zero if the request failed
NumbersAnswered(l) ==
  /\ l \in header.loads
  /\ \E n \in {l.of, Guest} :
       header' = [header EXCEPT !.loads = @ \ {l}, !.count = IF Counted(l) THEN n ELSE @]
  /\ OnlyHeader

ShellNext ==
  \/ ProtectedRoute \/ PublicRoute \/ AdminPublicRoute \/ AdminProtectedRoute \/ RedirectingRoute
  \/ \E place \in Addresses : Click(place) \/ TypeAddress(place)
  \/ Here = "login" /\ Click(at)
  \/ \E user \in Accounts \cup {Guest} : Restored(user)
  \/ \E user \in Accounts : SignedIn(user)
  \/ SubmitForm \/ SignInFails \/ Regretted \/ ClickLogout \/ LogoutEnds \/ SessionLost
  \/ MountLayout \/ LoadNumbers
  \/ \E l \in header.loads : NumbersAnswered(l)
=============================================================================

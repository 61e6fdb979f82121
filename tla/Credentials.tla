----------------------------- MODULE Credentials -----------------------------
(***************************************************************************)
(* The password and the address of one account, and the mailed links that  *)
(* set a new password or confirm the address (auth.ts, email.ts, the pages *)
(* that ask).  A request reads, decides, and writes in separate            *)
(* statements; requests of several browsers run at the same time.  The     *)
(* sessions that a new password ends are in Sessions.                      *)
(***************************************************************************)
EXTENDS Naturals

CONSTANTS
  Visitors,     \* browsers
  ResetLinks,   \* the identities of reset links
  VerifyLinks,  \* and of verification links
  Addresses,    \* e-mail addresses
  Typed,        \* the passwords typed on other pages than a reset link's
  Unset          \* no address, no link, no password

ASSUME CredentialsAssumption == Typed \cap ResetLinks = {}

VARIABLES
  account,      \* the row of the user
  link,         \* the rows of the links, and where they were mailed
  request       \* what each browser waits for

credentialVars == <<account, link, request>>

Links == ResetLinks \cup VerifyLinks

\* Whoever sets a password by a link chooses one of his own.
Passwords == Typed \cup ResetLinks

Unsent == [row |-> "none", expired |-> FALSE, to |-> Unset]

Idle == [op |-> "none", step |-> "read", link |-> Unset, address |-> Unset, password |-> Unset]

CredentialsTypeOK ==
  /\ account \in [password : Passwords \cup {Unset}, email : Addresses \cup {Unset},
                  verified : BOOLEAN]
  /\ link \in [Links -> [row : {"none", "live", "used", "gone"}, expired : BOOLEAN,
                         to : Addresses \cup {Unset}]]
  /\ request \in [Visitors -> [op : {"none", "forgot", "reset", "resend", "verify",
                                     "change", "profile"},
                               step : {"read", "delete", "create", "commit"},
                               link : Links \cup {Unset},
                               address : Addresses \cup {Unset},
                               password : Passwords \cup {Unset}]]

CredentialsInit ==
  /\ account = [password |-> Unset, email |-> Unset, verified |-> FALSE]
  /\ link = [l \in Links |-> Unsent]
  /\ request = [v \in Visitors |-> Idle]

Registered == account.email # Unset

At(v, op, step) == request[v].op = op /\ request[v].step = step

Proceed(v, step) == request' = [request EXCEPT ![v].step = step]

Done(v) == request' = [request EXCEPT ![v] = Idle]

-----------------------------------------------------------------------------
(* The pages.  A form waits for the answer to its request. *)

Ask(v, r) ==
  /\ request[v] = Idle
  /\ request' = [request EXCEPT ![v] = r]
  /\ UNCHANGED <<account, link>>

AskForgot(v, a) == Ask(v, [Idle EXCEPT !.op = "forgot", !.address = a])

AskReset(v, l) == link[l].to # Unset /\ Ask(v, [Idle EXCEPT !.op = "reset", !.link = l])

AskVerify(v, l) == link[l].to # Unset /\ Ask(v, [Idle EXCEPT !.op = "verify", !.link = l])

\* The next three are offered to the signed-in user.
AskResend(v) == Registered /\ Ask(v, [Idle EXCEPT !.op = "resend"])

AskChange(v, p) == Registered /\ Ask(v, [Idle EXCEPT !.op = "change", !.password = p])

AskProfile(v, a, p) ==
  Registered /\ Ask(v, [Idle EXCEPT !.op = "profile", !.address = a, !.password = p])

-----------------------------------------------------------------------------
(* Rows of links *)

\* The links in the set that are in the table.
Rows(L) == {l \in L : link[l].row \in {"live", "used"}}

Without(L) == [l \in Links |-> IF l \in Rows(L) THEN [link[l] EXCEPT !.row = "gone"] ELSE link[l]]

Expired(l) ==
  /\ link[l].row = "live" /\ ~link[l].expired
  /\ link' = [link EXCEPT ![l].expired = TRUE]
  /\ UNCHANGED <<account, request>>

\* Mail that fails leaves a link that nobody knows.
Mailed(v, l) ==
  /\ link[l] = Unsent
  /\ \E to \in {request[v].address, Unset} :
       link' = [link EXCEPT ![l] = [row |-> "live", expired |-> FALSE, to |-> to]]
  /\ Done(v)
  /\ UNCHANGED account

\* Whether the row found lets the request through; an expired row is deleted on sight.
Accept(v, op) ==
  LET l == request[v].link IN
  /\ At(v, op, "read")
  /\ IF link[l].row = "live" /\ ~link[l].expired
       THEN Proceed(v, "commit") /\ UNCHANGED link
       ELSE Done(v) /\ link' = Without({k \in {l} : link[k].row = "live"})
  /\ UNCHANGED account

-----------------------------------------------------------------------------
(* Reset links *)

ForgotRead(v) ==
  /\ At(v, "forgot", "read")
  /\ IF request[v].address = account.email THEN Proceed(v, "delete") ELSE Done(v)
  /\ UNCHANGED <<account, link>>

ForgotDelete(v) ==
  /\ At(v, "forgot", "delete")
  /\ link' = Without(ResetLinks) /\ Proceed(v, "create")
  /\ UNCHANGED account

ForgotCreate(v, l) == At(v, "forgot", "create") /\ Mailed(v, l)

ResetRead(v) == Accept(v, "reset")

\* Mutant: a row that is gone does not fail the transaction.
CommittedAlways(l) == TRUE

\* The transaction fails when the row it marks is gone, and does not look whether it was used.
Committed(l) == l \in Rows(ResetLinks)

ResetCommit(v) ==
  LET l == request[v].link IN
  /\ At(v, "reset", "commit")
  /\ IF Committed(l)
       THEN account' = [account EXCEPT !.password = l] /\ link' = [link EXCEPT ![l].row = "used"]
       ELSE UNCHANGED <<account, link>>
  /\ Done(v)

-----------------------------------------------------------------------------
(* The address and its verification *)

\* A new account is sent its first link.
Register(v, a, p) ==
  /\ request[v] = Idle /\ ~Registered
  /\ account' = [password |-> p, email |-> a, verified |-> FALSE]
  /\ request' = [request EXCEPT ![v] = [Idle EXCEPT !.op = "resend"]]
  /\ UNCHANGED link

ResendRead(v) ==
  /\ At(v, "resend", "read")
  /\ IF account.verified THEN Done(v)
     ELSE request' = [request EXCEPT ![v].step = "delete", ![v].address = account.email]
  /\ UNCHANGED <<account, link>>

ResendDelete(v) ==
  /\ At(v, "resend", "delete")
  /\ link' = Without(VerifyLinks) /\ Proceed(v, "create")
  /\ UNCHANGED account

ResendCreate(v, l) == At(v, "resend", "create") /\ Mailed(v, l)

VerifyRead(v) == Accept(v, "verify")

\* A row that is gone by now is no error.
VerifyCommit(v) ==
  LET l == request[v].link IN
  /\ At(v, "verify", "commit")
  /\ account' = [account EXCEPT !.verified = TRUE]
  /\ link' = [Without(VerifyLinks \ {l}) EXCEPT ![l].row = IF l \in Rows({l}) THEN "used" ELSE @]
  /\ Done(v)

\* A change of the address needs the password and goes on to send a link; another account may
\* have the address.
ProfileRead(v) ==
  /\ At(v, "profile", "read")
  /\ \/ request[v].password = account.password
        /\ IF request[v].address # account.email THEN Proceed(v, "commit")
           ELSE request' = [request EXCEPT ![v] = [Idle EXCEPT !.op = "resend"]]
     \/ (request[v].password # account.password \/ request[v].address # account.email) /\ Done(v)
  /\ UNCHANGED <<account, link>>

ProfileCommit(v) ==
  /\ At(v, "profile", "commit")
  /\ account' = [account EXCEPT !.email = request[v].address, !.verified = FALSE]
  /\ request' = [request EXCEPT ![v] = [Idle EXCEPT !.op = "resend"]]
  /\ UNCHANGED link

-----------------------------------------------------------------------------
(* The password *)

ChangeRead(v) ==
  /\ At(v, "change", "read")
  /\ IF request[v].password = account.password THEN Proceed(v, "commit") ELSE Done(v)
  /\ UNCHANGED <<account, link>>

\* The page refuses the current password as the new one; nothing is compared again.
ChangeCommit(v, new) ==
  /\ At(v, "change", "commit") /\ new # request[v].password
  /\ account' = [account EXCEPT !.password = new]
  /\ Done(v)
  /\ UNCHANGED link

CredentialsNext ==
  \/ \E l \in Links : Expired(l)
  \/ \E v \in Visitors :
       \/ \E a \in Addresses : AskForgot(v, a)
       \/ \E a \in Addresses, p \in Passwords : AskProfile(v, a, p)
       \/ \E a \in Addresses, p \in Typed : Register(v, a, p)
       \/ \E p \in Passwords : AskChange(v, p)
       \/ \E p \in Typed : ChangeCommit(v, p)
       \/ AskResend(v)
       \/ \E l \in ResetLinks : AskReset(v, l) \/ ForgotCreate(v, l)
       \/ \E l \in VerifyLinks : AskVerify(v, l) \/ ResendCreate(v, l)
       \/ ForgotRead(v) \/ ForgotDelete(v)
       \/ ResetRead(v) \/ ResetCommit(v)
       \/ ResendRead(v) \/ ResendDelete(v)
       \/ VerifyRead(v) \/ VerifyCommit(v)
       \/ ProfileRead(v) \/ ProfileCommit(v)
       \/ ChangeRead(v)
=============================================================================

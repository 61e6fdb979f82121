------------------------------ MODULE Sessions ------------------------------
(***************************************************************************)
(* The sessions of one account: what the server keeps of them              *)
(* (services/auth.ts, middleware/auth.ts, routes/auth.ts) and what one     *)
(* browser does to keep them (frontend lib/api.ts, AuthContext.tsx).       *)
(*                                                                         *)
(* The User row holds one refresh token and a version that every access    *)
(* token repeats.  The browser's tabs share the refresh cookie and the     *)
(* session hint; each has an access token and a flag isRefreshing of its   *)
(* own.  A Lane is one request of a tab, from its first fetch to the end   *)
(* of its promise, with the refresh and the retry nested in it.            *)
(*                                                                         *)
(* A refresh is three statements on the server (look up, read the user     *)
(* again, write the new token), so revocations, other refreshes and other  *)
(* sign-ins come between them.  Ages are not tracked: any access token may *)
(* be found expired, any refresh token too old.  A refresh token that the  *)
(* row does not hold never comes back to it, so all that is kept of a      *)
(* token is whether it is the one the row holds.                           *)
(***************************************************************************)
EXTENDS Integers, FiniteSets

CONSTANTS
  Tabs,        \* tabs of the browser
  Lanes,       \* requests in flight
  TabOf,       \* [Lanes -> Tabs]
  MaxVersion   \* bound: tokenVersion

NoToken == 0

ASSUME SessionsAssumption ==
  /\ TabOf \in [Lanes -> Tabs]
  /\ MaxVersion \in Nat \ {0}

VARIABLES
  version,   \* User.tokenVersion, counted from 1
  refresh,   \* User.refreshTokenHash # null
  root,      \* history: the version its session was signed in with; 0 once a revocation
             \* came between the look-up and the write of a rotation
  cookie,    \* the browser's refresh cookie is the token that the row holds
  hint,      \* localStorage auth_session_hint
  token,     \* token[t]: the version in tab t's access token
  flag,      \* flag[t]: isRefreshing
  page,      \* page[t]: what AuthContext shows
  lane

vars == <<version, refresh, root, cookie, hint, token, flag, page, lane>>
serverVars == <<version, refresh, root>>
tabVars == <<hint, token, flag, page>>
browserVars == <<cookie, tabVars>>

Versions == 1 .. MaxVersion
Idle == [op |-> "idle"]

\* op is what the promise is for: `boot` is restoreSession's getMe and `renew` its refresh.
\* A nested refresh is sub.  token and cookie are what was sent, seen and base what the server
\* has read, fresh and made what it answers.
Request ==
  [op : {"call", "boot", "renew", "login", "logout", "revoke"},
   phase : {"sent", "found", "reread", "stale", "rotated", "answered", "body"},
   sub : BOOLEAN, retried : BOOLEAN, token : {NoToken} \cup Versions, cookie : BOOLEAN,
   seen : {0} \cup Versions, base : {0} \cup Versions, fresh : {NoToken} \cup Versions,
   made : BOOLEAN, answer : {"none", "ok", "expired", "denied", "lost"}]

TypeOK ==
  /\ version \in Versions
  /\ refresh \in BOOLEAN
  /\ root \in {0} \cup Versions
  /\ cookie \in BOOLEAN
  /\ hint \in BOOLEAN
  /\ token \in [Tabs -> {NoToken} \cup Versions]
  /\ flag \in [Tabs -> BOOLEAN]
  /\ page \in [Tabs -> {"loading", "in", "out"}]
  /\ lane \in [Lanes -> {Idle} \cup Request]

Busy(l) == lane[l] # Idle
InPhase(l, p) == Busy(l) /\ lane[l].phase = p
Of(t) == {l \in Lanes : TabOf[l] = t}

\* The request as it leaves tab t.
Fetch(op, t, sub, retried) ==
  [op |-> op, phase |-> "sent", sub |-> sub, retried |-> retried,
   token |-> IF sub THEN NoToken ELSE token[t], cookie |-> cookie, seen |-> 0, base |-> 0,
   fresh |-> NoToken, made |-> FALSE, answer |-> "none"]

\* The request with its answer; what was read on the way is forgotten.
Answered(r, a, fresh, made) ==
  [r EXCEPT !.phase = "answered", !.answer = a, !.token = NoToken, !.cookie = FALSE,
            !.seen = 0, !.base = 0, !.fresh = fresh, !.made = made]

Put(l, r) == lane' = [lane EXCEPT ![l] = r]
Answer(l, a) == Put(l, Answered(lane[l], a, NoToken, FALSE))

\* The row's refresh token changes: the one that was there is worth nothing from now on.
Outdated(r) == IF r = Idle THEN r ELSE [r EXCEPT !.cookie = FALSE, !.made = FALSE]
PutAndOutdate(l, r) ==
  /\ lane' = [k \in Lanes |-> IF k = l THEN r ELSE Outdated(lane[k])]
  /\ cookie' = FALSE
OutdateAll == lane' = [k \in Lanes |-> Outdated(lane[k])] /\ cookie' = FALSE

Init ==
  /\ version = 1 /\ refresh = FALSE /\ root = 0
  /\ cookie = FALSE /\ hint = FALSE
  /\ token = [t \in Tabs |-> NoToken]
  /\ flag = [t \in Tabs |-> FALSE]
  /\ page = [t \in Tabs |-> "out"]
  /\ lane = [l \in Lanes |-> Idle]

-----------------------------------------------------------------------------
(* The server *)

IsRefresh(r) == r.sub \/ r.op \in {"renew", "logout"}

\* What a refresh answers when its token is not accepted; a logout has nothing left to do then.
NotAccepted(r) == IF r.op = "logout" /\ ~r.sub THEN "ok" ELSE "denied"

\* Mutant: revoking leaves the refresh token.
RevokeAllLoose == version' = version + 1 /\ UNCHANGED <<refresh, root>>

\* Mutant: the version counts the logouts of all sessions down.
RevokeAllDown == version' = version - 1 /\ refresh' = FALSE /\ root' = 0

\* revokeAllTokens, updatePassword and resetPassword do the same to the row.
RevokeAll == version' = version + 1 /\ refresh' = FALSE /\ root' = 0

\* requireAuth, and for `revoke` the handler behind it
ServeCall(l) ==
  LET r == lane[l]
  IN  /\ InPhase(l, "sent") /\ ~r.sub /\ r.op \in {"call", "boot", "revoke"}
      /\ \/ r.token # NoToken /\ Answer(l, "expired") /\ UNCHANGED <<serverVars, cookie>>
         \/ r.token # version /\ Answer(l, "denied") /\ UNCHANGED <<serverVars, cookie>>
         \/ /\ r.token = version /\ r.op # "revoke"
            /\ Answer(l, "ok") /\ UNCHANGED <<serverVars, cookie>>
         \/ /\ r.token = version /\ r.op = "revoke"
            /\ RevokeAll /\ PutAndOutdate(l, Answered(r, "ok", NoToken, FALSE))
      /\ UNCHANGED tabVars

\* login and register: the row is locked while the password is compared.
ServeLogin(l) ==
  /\ InPhase(l, "sent") /\ lane[l].op = "login"
  /\ \/ Answer(l, "denied") /\ UNCHANGED <<serverVars, cookie>>
     \/ /\ refresh' = TRUE /\ root' = version
        /\ PutAndOutdate(l, Answered(lane[l], "ok", version, TRUE))
        /\ UNCHANGED version
  /\ UNCHANGED tabVars

\* refreshAccessToken: the user with this token
Lookup(l) ==
  LET r == lane[l]
  IN  /\ InPhase(l, "sent") /\ IsRefresh(r)
      /\ \/ ~r.cookie /\ Answer(l, NotAccepted(r))
         \/ r.cookie /\ Put(l, [r EXCEPT !.phase = "found", !.seen = version, !.base = root,
                                   !.cookie = FALSE])
         \/ r.cookie /\ Put(l, [r EXCEPT !.phase = "stale", !.cookie = FALSE])
      /\ UNCHANGED <<serverVars, browserVars>>

\* The token was too old: it is removed by the user's id, whatever is there by now.
RemoveStale(l) ==
  /\ InPhase(l, "stale")
  /\ refresh' = FALSE /\ root' = 0
  /\ PutAndOutdate(l, Answered(lane[l], NotAccepted(lane[l]), NoToken, FALSE))
  /\ UNCHANGED <<version, tabVars>>

\* getUserWithFreshAllowance and generateToken: the access token has the version of now.
Reread(l) ==
  /\ InPhase(l, "found")
  /\ Put(l, [lane[l] EXCEPT !.phase = "reread", !.fresh = version])
  /\ UNCHANGED <<serverVars, browserVars>>

\* createRefreshToken: by the user's id, whatever is there by now
Rotate(l) ==
  LET r == lane[l]
      logout == r.op = "logout" /\ ~r.sub
  IN  /\ InPhase(l, "reread")
      /\ refresh' = TRUE
      /\ root' = IF r.seen = version THEN r.base ELSE 0
      /\ PutAndOutdate(l, IF logout THEN [r EXCEPT !.phase = "rotated"]
                          ELSE Answered(r, "ok", r.fresh, TRUE))
      /\ UNCHANGED <<version, tabVars>>

\* revokeRefreshToken, the last statement of a logout
RevokeRefresh(l) ==
  /\ InPhase(l, "rotated")
  /\ refresh' = FALSE /\ root' = 0
  /\ PutAndOutdate(l, Answered(lane[l], "ok", NoToken, FALSE))
  /\ UNCHANGED <<version, tabVars>>

Server(l) ==
  ServeCall(l) \/ ServeLogin(l) \/ Lookup(l) \/ RemoveStale(l) \/ Reread(l) \/ Rotate(l)
  \/ RevokeRefresh(l)

\* The request or its answer is lost on the way, or turned away by a rate limit.
Lose(l) ==
  /\ InPhase(l, "sent") \/ InPhase(l, "answered")
  /\ lane[l].answer # "lost" /\ Answer(l, "lost")
  /\ UNCHANGED <<serverVars, browserVars>>

\* Versions that revocations on their way will still take.
Pending == Cardinality({l \in Lanes : Busy(l) /\ lane[l].op = "revoke"})

\* The account is used from somewhere else: a sign-in, a new password, a logout of all sessions.
LoginElsewhere ==
  /\ refresh' = TRUE /\ root' = version
  /\ OutdateAll
  /\ UNCHANGED <<version, tabVars>>

RevokeElsewhere ==
  /\ version + Pending < MaxVersion
  /\ RevokeAll
  /\ OutdateAll
  /\ UNCHANGED tabVars

-----------------------------------------------------------------------------
(* The browser *)

\* restoreSession, when the tab is opened or loaded again
Open(t) ==
  /\ page[t] # "loading"
  /\ \A l \in Of(t) : ~Busy(l)
  /\ \E l \in Of(t) :
       \/ token[t] # NoToken /\ Put(l, Fetch("boot", t, FALSE, FALSE))
          /\ page' = [page EXCEPT ![t] = "loading"] /\ UNCHANGED flag
       \/ token[t] = NoToken /\ hint /\ Put(l, Fetch("renew", t, FALSE, FALSE))
          /\ page' = [page EXCEPT ![t] = "loading"] /\ flag' = [flag EXCEPT ![t] = TRUE]
       \/ token[t] = NoToken /\ ~hint
          /\ page' = [page EXCEPT ![t] = "out"] /\ UNCHANGED <<flag, lane>>
  /\ UNCHANGED <<serverVars, cookie, hint, token>>

Start(l, op) ==
  LET t == TabOf[l]
  IN  /\ ~Busy(l)
      /\ page[t] = IF op = "login" THEN "out" ELSE "in"
      /\ op = "revoke" => version + Pending < MaxVersion
      /\ Put(l, Fetch(op, t, FALSE, FALSE))
      /\ UNCHANGED <<serverVars, browserVars>>

\* What the browser keeps of an answer that sets cookie c and access token v.
Keep(t, c, v) ==
  /\ cookie' = c /\ hint' = TRUE
  /\ token' = [token EXCEPT ![t] = v]

\* The promise ends and tab t shows p.
End(l, p) == Put(l, Idle) /\ page' = [page EXCEPT ![TabOf[l]] = p]

\* An answer that ends the request well.
Succeed(l) ==
  LET r == lane[l]
      t == TabOf[l]
  IN  /\ InPhase(l, "answered") /\ r.answer = "ok" /\ ~r.sub
      /\ \/ /\ r.op \in {"call", "boot"}
            /\ End(l, IF r.op = "boot" THEN "in" ELSE page[t])
            /\ UNCHANGED <<cookie, hint, token, flag>>
         \/ /\ r.op \in {"login", "renew"}
            /\ Keep(t, r.made, r.fresh)
            /\ End(l, "in")
            /\ flag' = [flag EXCEPT ![t] = IF r.op = "renew" THEN FALSE ELSE @]
         \/ /\ r.op \in {"logout", "revoke"}
            /\ cookie' = FALSE /\ hint' = FALSE /\ token' = [token EXCEPT ![t] = NoToken]
            /\ End(l, "out")
            /\ UNCHANGED flag
      /\ UNCHANGED serverVars

\* 401 TOKEN_EXPIRED while no refresh is under way: the body is read, and then the refresh
\* is sent; the flag is not looked at in between.
NoticeExpiry(l) ==
  /\ InPhase(l, "answered") /\ lane[l].answer = "expired"
  /\ ~lane[l].retried /\ ~flag[TabOf[l]]
  /\ Put(l, [lane[l] EXCEPT !.phase = "body"])
  /\ UNCHANGED <<serverVars, browserVars>>

SendRefresh(l) ==
  LET t == TabOf[l]
  IN  /\ InPhase(l, "body")
      /\ flag' = [flag EXCEPT ![t] = TRUE]
      /\ Put(l, Fetch(lane[l].op, t, TRUE, FALSE))
      /\ UNCHANGED <<serverVars, cookie, hint, token, page>>

\* Mutant: the request that is sent again may be sent again.
RetryUnlimited(l) ==
  LET r == lane[l]
      t == TabOf[l]
  IN  /\ InPhase(l, "answered") /\ r.answer = "ok" /\ r.sub
      /\ Keep(t, r.made, r.fresh)
      /\ flag' = [flag EXCEPT ![t] = FALSE]
      /\ Put(l, [Fetch(r.op, t, FALSE, FALSE) EXCEPT !.token = r.fresh, !.cookie = r.made])
      /\ UNCHANGED <<serverVars, page>>

\* The nested refresh succeeded: the request is sent once more.
Retry(l) ==
  LET r == lane[l]
      t == TabOf[l]
  IN  /\ InPhase(l, "answered") /\ r.answer = "ok" /\ r.sub
      /\ Keep(t, r.made, r.fresh)
      /\ flag' = [flag EXCEPT ![t] = FALSE]
      /\ Put(l, [Fetch(r.op, t, FALSE, TRUE) EXCEPT !.token = r.fresh, !.cookie = r.made])
      /\ UNCHANGED <<serverVars, page>>

\* The answers after which the promise is rejected as a 401: every refused one but an expiry
\* that can still be repaired, and every failed refresh inside another request.
Refused(l) ==
  LET r == lane[l]
  IN  \/ r.answer = "denied"
      \/ r.answer = "expired" /\ (r.retried \/ flag[TabOf[l]])
      \/ r.answer = "lost" /\ r.sub

\* What a rejected promise leads to: restoreSession tries the cookie, refreshUser (one of the
\* calls) signs out, everyone else shows the error.
Reject(l) ==
  LET r == lane[l]
      t == TabOf[l]
      renewing == r.sub \/ r.op = "renew"
  IN  /\ InPhase(l, "answered") /\ Refused(l)
      /\ token' = [token EXCEPT ![t] = NoToken]
      /\ hint' = (hint /\ ~renewing /\ r.op # "logout")
      /\ \/ /\ r.op = "boot"
            /\ Put(l, [Fetch("renew", t, FALSE, FALSE) EXCEPT !.token = NoToken])
            /\ flag' = [flag EXCEPT ![t] = TRUE]
            /\ UNCHANGED <<page, cookie>>
         \/ /\ r.op = "call"
            /\ Put(l, [Fetch("logout", t, FALSE, FALSE) EXCEPT !.token = NoToken])
            /\ flag' = [flag EXCEPT ![t] = IF renewing THEN FALSE ELSE @]
            /\ UNCHANGED <<page, cookie>>
         \/ /\ r.op # "boot"
            /\ End(l, IF r.op \in {"renew", "logout"} THEN "out" ELSE page[t])
            /\ flag' = [flag EXCEPT ![t] = IF renewing THEN FALSE ELSE @]
            /\ UNCHANGED cookie
      /\ UNCHANGED serverVars

\* Mutant: a network error leaves the flag, as with no `finally` in refresh.
NetworkErrorKeepsFlag(l) ==
  LET r == lane[l]
      t == TabOf[l]
  IN  /\ InPhase(l, "answered") /\ r.answer = "lost" /\ ~r.sub
      /\ hint' = (hint /\ r.op \notin {"renew", "logout"})
      /\ token' = [token EXCEPT ![t] = IF r.op = "logout" THEN NoToken ELSE @]
      /\ End(l, IF r.op \in {"boot", "renew", "logout"} THEN "out" ELSE page[t])
      /\ UNCHANGED <<serverVars, cookie, flag>>

\* A network error outside a nested refresh: the token stays, the hint of a renewal goes.
NetworkError(l) ==
  LET r == lane[l]
      t == TabOf[l]
  IN  /\ InPhase(l, "answered") /\ r.answer = "lost" /\ ~r.sub
      /\ hint' = (hint /\ r.op \notin {"renew", "logout"})
      /\ token' = [token EXCEPT ![t] = IF r.op = "logout" THEN NoToken ELSE @]
      /\ flag' = [flag EXCEPT ![t] = IF r.op = "renew" THEN FALSE ELSE @]
      /\ End(l, IF r.op \in {"boot", "renew", "logout"} THEN "out" ELSE page[t])
      /\ UNCHANGED <<serverVars, cookie>>

Browser(l) ==
  Succeed(l) \/ NoticeExpiry(l) \/ SendRefresh(l) \/ Retry(l) \/ Reject(l) \/ NetworkError(l)

Next ==
  \/ \E l \in Lanes : Server(l) \/ Browser(l) \/ Lose(l)
  \/ \E l \in Lanes, op \in {"call", "login", "logout", "revoke"} : Start(l, op)
  \/ \E t \in Tabs : Open(t)
  \/ LoginElsewhere \/ RevokeElsewhere

\* The server goes on with what it has received and the browser with what has arrived.
Fairness == \A l \in Lanes : WF_vars(Server(l)) /\ WF_vars(Browser(l))

Spec == Init /\ [][Next]_vars /\ Fairness
============================================================================

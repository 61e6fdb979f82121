--------------------------- MODULE Sessions_proofs ---------------------------
(***************************************************************************)
(* Three theorems about the sessions of an account, for any number of tabs *)
(* and requests: a revocation kills every older session, no tab is left    *)
(* with isRefreshing set, and the state is well typed.  Only the last uses *)
(* MaxVersion.                                                             *)
(***************************************************************************)
EXTENDS SessionsProperties, FiniteSetTheorems, TLAPS

Ops == {"call", "boot", "renew", "login", "logout", "revoke"}

AnyRequest ==
  [op : Ops,
   phase : {"sent", "found", "reread", "stale", "rotated", "answered", "body"},
   sub : BOOLEAN, retried : BOOLEAN, token : Nat, cookie : BOOLEAN,
   seen : Nat, base : Nat, fresh : Nat,
   made : BOOLEAN, answer : {"none", "ok", "expired", "denied", "lost"}]

\* A refresh that still has to write read a version no newer than v; if it read v itself, then
\* the session it found is one of v, or one that had already been cut off.
LaneOK(r, v) ==
  /\ r \in {Idle} \cup AnyRequest
  /\ r # Idle /\ r.phase \in {"found", "reread"} =>
       r.seen <= v /\ (r.seen = v => r.base \in {0, v})

LanesOK(f, v) ==
  /\ f = [l \in Lanes |-> f[l]]
  /\ \A l \in Lanes : LaneOK(f[l], v)

BrowserOK ==
  /\ cookie \in BOOLEAN
  /\ token \in [Tabs -> Nat]
  /\ flag \in [Tabs -> BOOLEAN]

RowOK == version \in Nat /\ root \in {0, version}

SessionInv == RowOK /\ BrowserOK /\ LanesOK(lane, version)

-----------------------------------------------------------------------------
(* A request that leaves has read nothing (api.ts:74-107).                 *)
LEMMA FetchOK ==
  ASSUME BrowserOK, NEW t \in Tabs, NEW op \in Ops, NEW sub \in BOOLEAN,
         NEW retried \in BOOLEAN, NEW v
  PROVE  /\ LaneOK(Fetch(op, t, sub, retried), v)
         /\ \A k \in Nat, c \in BOOLEAN :
              LaneOK([Fetch(op, t, sub, retried) EXCEPT !.token = k, !.cookie = c], v)
         /\ \A k \in Nat : LaneOK([Fetch(op, t, sub, retried) EXCEPT !.token = k], v)
<1> DEFINE r == Fetch(op, t, sub, retried)
<1>1. r \in AnyRequest /\ r.phase = "sent"
  <2>1. (IF sub THEN NoToken ELSE token[t]) \in Nat  BY DEF BrowserOK, NoToken
  <2> QED  BY <2>1 DEF Fetch, AnyRequest, BrowserOK, NoToken
<1> HIDE DEF r
<1>2. ASSUME NEW q \in AnyRequest, q.phase = "sent"  PROVE LaneOK(q, v)
  BY <1>2 DEF LaneOK
<1>3. ASSUME NEW k \in Nat
      PROVE  [r EXCEPT !.token = k] \in AnyRequest /\ [r EXCEPT !.token = k].phase = "sent"
  BY <1>1 DEF AnyRequest
<1>4. ASSUME NEW k \in Nat, NEW c \in BOOLEAN
      PROVE  /\ [r EXCEPT !.token = k, !.cookie = c] \in AnyRequest
             /\ [r EXCEPT !.token = k, !.cookie = c].phase = "sent"
  BY <1>1 DEF AnyRequest
<1> QED  BY <1>1, <1>2, <1>3, <1>4 DEF r

(* An answer ends what a request has read on the server (auth.ts:214-265). *)
LEMMA AnsweredOK ==
  ASSUME NEW r \in AnyRequest, NEW a \in {"none", "ok", "expired", "denied", "lost"},
         NEW fresh \in Nat, NEW made \in BOOLEAN, NEW v
  PROVE  LaneOK(Answered(r, a, fresh, made), v)
BY DEF LaneOK, Answered, AnyRequest, NoToken

(* Neither a new refresh token nor a newer version disturbs a request.     *)
LEMMA OthersOK ==
  ASSUME NEW v \in Nat, NEW r, LaneOK(r, v)
  PROVE  LaneOK(Outdated(r), v) /\ LaneOK(r, v + 1) /\ LaneOK(Outdated(r), v + 1)
<1>1. LaneOK(Outdated(r), v)
  <2>1. CASE r = Idle  BY <2>1 DEF LaneOK, Outdated
  <2>2. CASE r # Idle
    <3>1. r \in AnyRequest  BY <2>2 DEF LaneOK
    <3>2. Outdated(r) = [r EXCEPT !.cookie = FALSE, !.made = FALSE]  BY <2>2 DEF Outdated
    <3> QED  BY <3>1, <3>2, <2>2 DEF LaneOK, AnyRequest
  <2> QED  BY <2>1, <2>2
<1>2. ASSUME NEW q, LaneOK(q, v)  PROVE LaneOK(q, v + 1)
  <2>1. CASE q = Idle  BY <2>1 DEF LaneOK
  <2>2. CASE q \in AnyRequest
    <3>1. q.seen \in Nat  BY <2>2 DEF AnyRequest
    <3>2. q # Idle /\ q.phase \in {"found", "reread"} => q.seen <= v
      BY <1>2 DEF LaneOK
    <3> QED  BY <3>1, <3>2, <2>2 DEF LaneOK
  <2> QED  BY <2>1, <2>2, <1>2 DEF LaneOK
<1> QED  BY <1>1, <1>2

(* One request changes, and with it perhaps the token the others hold.     *)
LEMMA PutOK ==
  ASSUME NEW v \in Nat, LanesOK(lane, v), NEW l \in Lanes, NEW r, LaneOK(r, v)
  PROVE  /\ Put(l, r) => LanesOK(lane', v)
         /\ PutAndOutdate(l, r) => LanesOK(lane', v) /\ cookie' \in BOOLEAN
<1>1. \A k \in Lanes : LaneOK(lane[k], v)  BY DEF LanesOK
<1>2. \A k \in Lanes : LaneOK(Outdated(lane[k]), v)  BY <1>1, OthersOK
<1>3. ASSUME Put(l, r)  PROVE LanesOK(lane', v)
  <2>1. lane' = [k \in Lanes |-> IF k = l THEN r ELSE lane[k]]  BY <1>3 DEF Put, LanesOK
  <2> QED  BY <2>1, <1>1 DEF LanesOK
<1>4. ASSUME PutAndOutdate(l, r)  PROVE LanesOK(lane', v) /\ cookie' \in BOOLEAN
  BY <1>4, <1>2 DEF LanesOK, PutAndOutdate
<1> QED  BY <1>3, <1>4

(* The same when the change comes from elsewhere.                          *)
LEMMA OutdateOK ==
  ASSUME NEW v \in Nat, LanesOK(lane, v), OutdateAll
  PROVE  LanesOK(lane', v) /\ cookie' \in BOOLEAN
<1>1. \A k \in Lanes : LaneOK(Outdated(lane[k]), v)  BY OthersOK DEF LanesOK
<1> QED  BY <1>1 DEF LanesOK, OutdateAll

(* A request that is not idle is a request.                                *)
LEMMA BusyOK ==
  ASSUME NEW v, LanesOK(lane, v), NEW l \in Lanes, Busy(l)
  PROVE  lane[l] \in AnyRequest
BY DEF LanesOK, LaneOK, Busy

(* A version more is a version more for every request.                     *)
LEMMA NewerOK ==
  ASSUME NEW v \in Nat, NEW f, LanesOK(f, v)
  PROVE  LanesOK(f, v + 1)
BY OthersOK DEF LanesOK

-----------------------------------------------------------------------------
(* What the server does keeps the invariant: every write of a refresh      *)
(* token either starts a session of the present version, or goes on with   *)
(* one, or comes from a rotation that a revocation has overtaken.          *)
LEMMA ServerStep ==
  ASSUME SessionInv, NEW l \in Lanes, Server(l)
  PROVE  SessionInv'
<1> DEFINE r == lane[l]
<1> USE DEF SessionInv
<1>0. r \in AnyRequest /\ LaneOK(r, version) /\ version \in Nat
  BY BusyOK DEF Server, ServeCall, ServeLogin, Lookup, RemoveStale, Reread, Rotate,
                RevokeRefresh, InPhase, LanesOK, RowOK
<1>a. /\ \A a \in {"ok", "expired", "denied"} : LaneOK(Answered(r, a, NoToken, FALSE), version)
      /\ LaneOK(Answered(r, "ok", version, TRUE), version)
      /\ LaneOK(Answered(r, "ok", r.fresh, TRUE), version)
  <2>1. r.fresh \in Nat  BY <1>0 DEF AnyRequest
  <2> QED  BY <1>0, <2>1, AnsweredOK DEF NoToken
<1>b. ASSUME NEW q, LaneOK(q, version), UNCHANGED version
      PROVE  /\ Put(l, q) => LanesOK(lane, version)'
             /\ PutAndOutdate(l, q) => (LanesOK(lane, version) /\ cookie \in BOOLEAN)'
  BY <1>b, <1>0, PutOK
<1>c. ASSUME NEW a \in {"ok", "expired", "denied"}, Answer(l, a), UNCHANGED version
      PROVE  LanesOK(lane, version)'
  BY <1>a, <1>b, <1>c DEF Answer
<1> HIDE DEF r
<1>1. CASE ServeCall(l)
  <2>1. CASE \E a \in {"ok", "expired", "denied"} :
               Answer(l, a) /\ UNCHANGED <<serverVars, cookie>>
    <3>1. LanesOK(lane, version)'  BY <2>1, <1>c DEF serverVars
    <3> QED  BY <3>1, <1>1, <2>1 DEF ServeCall, serverVars, tabVars, RowOK, BrowserOK
  <2>2. CASE RevokeAll /\ PutAndOutdate(l, Answered(lane[l], "ok", NoToken, FALSE))
    <3>1. LanesOK(lane', version) /\ cookie' \in BOOLEAN  BY <2>2, <1>0, <1>a, PutOK DEF r
    <3>2. LanesOK(lane', version + 1)  BY <3>1, <1>0, NewerOK
    <3> QED
      BY <3>1, <3>2, <1>1, <2>2, <1>0
      DEF ServeCall, RevokeAll, tabVars, RowOK, BrowserOK
  <2> QED  BY <1>1, <2>1, <2>2, Zenon DEF ServeCall
<1>2. CASE ServeLogin(l)
  <2> USE DEF ServeLogin
  <2>1. CASE Answer(l, "denied") /\ UNCHANGED <<serverVars, cookie>>
    <3>1. LanesOK(lane, version)'  BY <2>1, <1>c DEF serverVars
    <3> QED
      BY <3>1, <1>2, <2>1 DEF serverVars, tabVars, RowOK, BrowserOK
  <2>2. CASE /\ refresh' = TRUE /\ root' = version /\ UNCHANGED version
             /\ PutAndOutdate(l, Answered(lane[l], "ok", version, TRUE))
    <3>1. (LanesOK(lane, version) /\ cookie \in BOOLEAN)'  BY <2>2, <1>a, <1>b DEF r
    <3> QED  BY <3>1, <1>2, <2>2 DEF tabVars, RowOK, BrowserOK
  <2> QED  BY <1>2, <2>1, <2>2
<1>3. CASE Lookup(l)
  <2> USE DEF Lookup
  <2>1. LanesOK(lane, version)'
    <3>1. CASE Answer(l, NotAccepted(r))
      <4>1. NotAccepted(r) \in {"ok", "denied"}  BY DEF NotAccepted
      <4> QED  BY <4>1, <3>1, <1>3, <1>c DEF serverVars
    <3>2. CASE Put(l, [r EXCEPT !.phase = "found", !.seen = version, !.base = root,
                                !.cookie = FALSE])
      <4> DEFINE q == [r EXCEPT !.phase = "found", !.seen = version, !.base = root,
                                !.cookie = FALSE]
      <4>0. root \in Nat  BY DEF RowOK
      <4>1. q \in AnyRequest  BY <1>0, <4>0 DEF AnyRequest
      <4>2. q.seen = version /\ q.base = root  BY <1>0 DEF AnyRequest
      <4>3. LaneOK(q, version)  BY <4>1, <4>2, <1>0 DEF LaneOK, RowOK
      <4> HIDE DEF q
      <4> QED  BY <4>3, <3>2, <1>3, <1>b DEF serverVars, q
    <3>3. CASE Put(l, [r EXCEPT !.phase = "stale", !.cookie = FALSE])
      <4> DEFINE q == [r EXCEPT !.phase = "stale", !.cookie = FALSE]
      <4>1. LaneOK(q, version)  BY <1>0 DEF LaneOK, AnyRequest
      <4> HIDE DEF q
      <4> QED  BY <4>1, <3>3, <1>3, <1>b DEF serverVars, q
    <3> QED  BY <3>1, <3>2, <3>3, <1>3 DEF r
  <2> QED  BY <2>1, <1>3 DEF serverVars, browserVars, tabVars, RowOK, BrowserOK
<1>4. CASE RemoveStale(l)
  <2>1. NotAccepted(r) \in {"ok", "denied"}  BY DEF NotAccepted
  <2>2. (LanesOK(lane, version) /\ cookie \in BOOLEAN)'
    BY <2>1, <1>4, <1>a, <1>b DEF RemoveStale, r
  <2> QED  BY <2>2, <1>4 DEF RemoveStale, tabVars, RowOK, BrowserOK
<1>5. CASE Reread(l)
  <2> DEFINE q == [r EXCEPT !.phase = "reread", !.fresh = version]
  <2>1. LaneOK(q, version)
    BY <1>0, <1>5 DEF Reread, InPhase, Busy, LaneOK, AnyRequest, r
  <2>2. Put(l, q) /\ UNCHANGED version  BY <1>5 DEF Reread, serverVars, r
  <2> HIDE DEF q
  <2>3. LanesOK(lane, version)'  BY <2>1, <2>2, <1>b
  <2> QED  BY <2>3, <1>5 DEF Reread, serverVars, browserVars, tabVars, RowOK, BrowserOK
<1>6. CASE Rotate(l)
  <2> DEFINE q == [r EXCEPT !.phase = "rotated"]
  <2>1. LaneOK(q, version)  BY <1>0 DEF LaneOK, AnyRequest
  <2> HIDE DEF q
  <2>2. \/ PutAndOutdate(l, q)
        \/ PutAndOutdate(l, Answered(r, "ok", r.fresh, TRUE))
    BY <1>6 DEF Rotate, q, r
  <2>3. (LanesOK(lane, version) /\ cookie \in BOOLEAN)'
    BY <2>1, <2>2, <1>6, <1>a, <1>b DEF Rotate
  <2>4. root' \in {0, version}
    BY <1>0, <1>6 DEF Rotate, InPhase, Busy, LaneOK, r
  <2> QED  BY <2>3, <2>4, <1>6 DEF Rotate, tabVars, RowOK, BrowserOK
<1>7. CASE RevokeRefresh(l)
  <2>1. (LanesOK(lane, version) /\ cookie \in BOOLEAN)'
    BY <1>7, <1>a, <1>b DEF RevokeRefresh, r
  <2> QED  BY <2>1, <1>7 DEF RevokeRefresh, tabVars, RowOK, BrowserOK
<1> QED  BY <1>1, <1>2, <1>3, <1>4, <1>5, <1>6, <1>7 DEF Server

(* The browser writes no row; what it sends has read nothing.              *)
LEMMA BrowserStep ==
  ASSUME SessionInv, SessionsAssumption, NEW l \in Lanes, Browser(l)
  PROVE  SessionInv'
<1> DEFINE r == lane[l]
           t == TabOf[l]
<1> USE DEF SessionInv
<1>0. /\ r \in AnyRequest /\ LaneOK(r, version) /\ version \in Nat
      /\ t \in Tabs /\ r.op \in Ops /\ r.fresh \in Nat /\ r.made \in BOOLEAN
  <2>1. r \in AnyRequest
    BY BusyOK DEF Browser, Succeed, NoticeExpiry, SendRefresh, Retry, Reject, NetworkError,
                  InPhase
  <2> QED  BY <2>1 DEF LanesOK, RowOK, SessionsAssumption, AnyRequest
<1>1. ASSUME NEW q, LaneOK(q, version), Put(l, q), UNCHANGED version
      PROVE  LanesOK(lane, version)'
  BY <1>1, <1>0, PutOK
<1>2. ASSUME NEW op \in Ops, NEW sub \in BOOLEAN, NEW again \in BOOLEAN
      PROVE  /\ LaneOK(Fetch(op, t, sub, again), version)
             /\ LaneOK([Fetch(op, t, sub, again) EXCEPT !.token = NoToken], version)
             /\ LaneOK([Fetch(op, t, sub, again) EXCEPT !.token = r.fresh, !.cookie = r.made],
                       version)
  BY <1>0, <1>2, FetchOK DEF NoToken
<1>3. LaneOK(Idle, version)  BY DEF LaneOK
<1> HIDE DEF r, t
<1>4. UNCHANGED serverVars
  BY DEF Browser, Succeed, NoticeExpiry, SendRefresh, Retry, Reject, NetworkError
<1>5. RowOK'  BY <1>4 DEF serverVars, RowOK
<1>6. LanesOK(lane, version)'
  <2>1. CASE Put(l, Idle)  BY <2>1, <1>1, <1>3, <1>4 DEF serverVars
  <2>2. CASE Put(l, [r EXCEPT !.phase = "body"])
    <3> DEFINE q == [r EXCEPT !.phase = "body"]
    <3>1. LaneOK(q, version)  BY <1>0 DEF LaneOK, AnyRequest
    <3> HIDE DEF q
    <3> QED  BY <3>1, <2>2, <1>1, <1>4 DEF serverVars, q
  <2>3. CASE \E op \in Ops, sub \in BOOLEAN, again \in BOOLEAN :
               \/ Put(l, Fetch(op, t, sub, again))
               \/ Put(l, [Fetch(op, t, sub, again) EXCEPT !.token = NoToken])
               \/ Put(l, [Fetch(op, t, sub, again) EXCEPT !.token = r.fresh, !.cookie = r.made])
    BY <2>3, <1>1, <1>2, <1>4 DEF serverVars
  <2>4. CASE Succeed(l) \/ NetworkError(l)
    BY <2>1, <2>4 DEF Succeed, NetworkError, End
  <2>5. CASE NoticeExpiry(l)  BY <2>2, <2>5 DEF NoticeExpiry, r
  <2>6. CASE SendRefresh(l)
    <3>1. Put(l, Fetch(r.op, t, TRUE, FALSE))  BY <2>6 DEF SendRefresh, r, t
    <3> QED  BY <3>1, <2>3, <1>0
  <2>7. CASE Retry(l)
    <3>1. Put(l, [Fetch(r.op, t, FALSE, TRUE) EXCEPT !.token = r.fresh, !.cookie = r.made])
      BY <2>7 DEF Retry, r, t
    <3> QED  BY <3>1, <2>3, <1>0
  <2>8. CASE Reject(l)
    <3>1. \/ Put(l, Idle)
          \/ Put(l, [Fetch("renew", t, FALSE, FALSE) EXCEPT !.token = NoToken])
          \/ Put(l, [Fetch("logout", t, FALSE, FALSE) EXCEPT !.token = NoToken])
      BY <2>8 DEF Reject, End, t
    <3>2. "renew" \in Ops /\ "logout" \in Ops  BY DEF Ops
    <3> QED  BY <3>1, <3>2, <2>1, <2>3
  <2> QED  BY <2>4, <2>5, <2>6, <2>7, <2>8 DEF Browser
<1>7. BrowserOK'
  <2> USE DEF BrowserOK
  <2>1. CASE Succeed(l)
    <3>1. cookie' = cookie \/ cookie' = r.made \/ cookie' = FALSE
      BY <2>1 DEF Succeed, Keep, r
    <3>a. cookie' \in BOOLEAN  BY <3>1, <1>0, Zenon
    <3>2. token' = token \/ \E v \in Nat : token' = [token EXCEPT ![t] = v]
      BY <2>1, <1>0 DEF Succeed, Keep, NoToken, r, t
    <3>b. token' \in [Tabs -> Nat]  BY <3>2, <1>0
    <3>3. \/ UNCHANGED flag
          \/ \E b \in BOOLEAN : flag' = [flag EXCEPT ![t] = b]
      <4>1. (IF r.op = "renew" THEN FALSE ELSE flag[t]) \in BOOLEAN  BY <1>0
      <4> QED  BY <2>1, <4>1 DEF Succeed, r, t
    <3>4. flag' \in [Tabs -> BOOLEAN]  BY <3>3, <1>0
    <3> QED  BY <3>a, <3>b, <3>4
  <2>2. CASE NoticeExpiry(l)  BY <2>2 DEF NoticeExpiry, browserVars, tabVars
  <2>3. CASE SendRefresh(l)  BY <2>3 DEF SendRefresh
  <2>4. CASE Retry(l)  BY <2>4, <1>0 DEF Retry, Keep, r, t
  <2>5. CASE Reject(l)  BY <2>5, <1>0 DEF Reject, NoToken, r, t
  <2>6. CASE NetworkError(l)  BY <2>6, <1>0 DEF NetworkError, NoToken, r, t
  <2> QED  BY <2>1, <2>2, <2>3, <2>4, <2>5, <2>6 DEF Browser
<1> QED  BY <1>5, <1>6, <1>7

(* What is lost, started, opened or done from elsewhere.                   *)
LEMMA OtherStep ==
  ASSUME SessionInv, SessionsAssumption,
         \/ \E l \in Lanes : Lose(l)
         \/ \E l \in Lanes, op \in {"call", "login", "logout", "revoke"} : Start(l, op)
         \/ \E t \in Tabs : Open(t)
         \/ LoginElsewhere
         \/ RevokeElsewhere
  PROVE  SessionInv'
<1> USE DEF SessionInv
<1>0. version \in Nat  BY DEF RowOK
<1>1. ASSUME NEW l \in Lanes, Lose(l)  PROVE SessionInv'
  <2>1. lane[l] \in AnyRequest  BY <1>1, BusyOK DEF Lose, InPhase
  <2>2. LaneOK(Answered(lane[l], "lost", NoToken, FALSE), version)
    BY <2>1, AnsweredOK DEF NoToken
  <2>3. LanesOK(lane', version)  BY <2>2, <1>0, <1>1, PutOK DEF Lose, Answer
  <2> QED  BY <2>3, <1>1 DEF Lose, serverVars, browserVars, tabVars, RowOK, BrowserOK
<1>2. ASSUME NEW l \in Lanes, NEW op \in {"call", "login", "logout", "revoke"}, Start(l, op)
      PROVE  SessionInv'
  <2>1. TabOf[l] \in Tabs /\ op \in Ops  BY DEF SessionsAssumption, Ops
  <2>2. LaneOK(Fetch(op, TabOf[l], FALSE, FALSE), version)  BY <2>1, FetchOK
  <2>3. LanesOK(lane', version)  BY <2>2, <1>0, <1>2, PutOK DEF Start
  <2> QED  BY <2>3, <1>2 DEF Start, serverVars, browserVars, tabVars, RowOK, BrowserOK
<1>3. ASSUME NEW t \in Tabs, Open(t)  PROVE SessionInv'
  <2>1. "boot" \in Ops /\ "renew" \in Ops  BY DEF Ops
  <2>2. PICK l \in Of(t) :
          \/ Put(l, Fetch("boot", t, FALSE, FALSE)) /\ UNCHANGED flag
          \/ Put(l, Fetch("renew", t, FALSE, FALSE)) /\ flag' = [flag EXCEPT ![t] = TRUE]
          \/ UNCHANGED <<flag, lane>>
    BY <1>3 DEF Open
  <2>3. l \in Lanes  BY DEF Of
  <2>4. LanesOK(lane', version)
    <3>1. CASE UNCHANGED lane  BY <3>1
    <3>2. CASE \E op \in {"boot", "renew"} : Put(l, Fetch(op, t, FALSE, FALSE))
      BY <3>2, <2>1, <2>3, <1>0, FetchOK, PutOK
    <3> QED  BY <2>2, <3>1, <3>2
  <2> QED  BY <2>2, <2>4, <1>3 DEF Open, serverVars, RowOK, BrowserOK
<1>4. CASE LoginElsewhere
  <2>1. LanesOK(lane', version) /\ cookie' \in BOOLEAN
    BY <1>0, <1>4, OutdateOK DEF LoginElsewhere
  <2> QED  BY <2>1, <1>4 DEF LoginElsewhere, tabVars, RowOK, BrowserOK
<1>5. CASE RevokeElsewhere
  <2>1. LanesOK(lane', version) /\ cookie' \in BOOLEAN
    BY <1>0, <1>5, OutdateOK DEF RevokeElsewhere
  <2>2. LanesOK(lane', version + 1)  BY <2>1, <1>0, NewerOK
  <2> QED  BY <2>1, <2>2, <1>5 DEF RevokeElsewhere, RevokeAll, tabVars, RowOK, BrowserOK
<1> QED  BY <1>1, <1>2, <1>3, <1>4, <1>5

(* The browser starts with no session, no token and no request.            *)
LEMMA SessionInit == Init => SessionInv
<1> SUFFICES ASSUME Init  PROVE SessionInv
  OBVIOUS
<1>1. RowOK  BY DEF Init, RowOK
<1>2. BrowserOK  BY DEF Init, BrowserOK, NoToken
<1>3. LaneOK(Idle, version)  BY DEF LaneOK
<1>4. LanesOK(lane, version)  BY <1>3 DEF Init, LanesOK
<1> QED  BY <1>1, <1>2, <1>4 DEF SessionInv

(* Every step keeps the invariant.                                         *)
LEMMA SessionNext == SessionInv /\ [Next]_vars => SessionInv'
<1> SUFFICES ASSUME SessionInv, [Next]_vars  PROVE SessionInv'
  OBVIOUS
<1>1. CASE Next
  BY <1>1, ServerStep, BrowserStep, OtherStep, SessionsAssumption DEF Next
<1>2. CASE UNCHANGED vars
  BY <1>2 DEF vars, SessionInv, RowOK, BrowserOK, LanesOK
<1> QED  BY <1>1, <1>2

(* A refresh token that is accepted belongs to a session signed in after   *)
(* the last revocation, or to a rotation that the revocation overtook, for *)
(* any number of tabs, requests and revocations (auth.ts:214-290).         *)
THEOREM RevokedSessionsStayDead == Spec => []OldSessionsAreDead
<1>1. SessionInv => OldSessionsAreDead  BY DEF SessionInv, RowOK, OldSessionsAreDead
<1> QED  BY <1>1, SessionInit, SessionNext, PTL DEF Spec

-----------------------------------------------------------------------------
\* A request that holds the flag of its tab: a refresh, nested in it or its own.
Renews(r) == r # Idle /\ (r.sub \/ r.op = "renew")

FlagInv == \A t \in Tabs : flag[t] => \E l \in Of(t) : Renews(lane[l])

(* When one request moves, the flags of other tabs stay, and its own tab   *)
(* keeps a flag only with a request that refreshes (api.ts:118-150).       *)
LEMMA OneRequest ==
  ASSUME FlagInv, SessionsAssumption, NEW l \in Lanes,
         \A k \in Lanes \ {l} : Renews(lane[k]) => Renews(lane'[k]),
         \A u \in Tabs \ {TabOf[l]} : flag'[u] => flag[u],
         flag'[TabOf[l]] => Renews(lane'[l]) \/ (flag[TabOf[l]] /\ ~Renews(lane[l]))
  PROVE  FlagInv'
<1> SUFFICES ASSUME NEW u \in Tabs, flag'[u]
             PROVE  \E k \in Lanes : TabOf[k] = u /\ Renews(lane'[k])
  BY DEF FlagInv, Of
<1>1. CASE u = TabOf[l] /\ Renews(lane'[l])  BY <1>1
<1>2. CASE flag[u] /\ ~(u = TabOf[l] /\ Renews(lane[l]))
  <2>1. PICK k \in Lanes : TabOf[k] = u /\ Renews(lane[k])  BY <1>2 DEF FlagInv, Of
  <2>2. k # l  BY <1>2, <2>1
  <2> QED  BY <2>1, <2>2
<1> QED  BY <1>1, <1>2

(* A token that goes out of date ends no refresh.                          *)
LEMMA OthersRenew ==
  ASSUME SessionInv, NEW l \in Lanes, NEW q,
         Put(l, q) \/ PutAndOutdate(l, q)
  PROVE  /\ lane'[l] = q
         /\ \A k \in Lanes \ {l} : Renews(lane[k]) => Renews(lane'[k])
<1>1. \A k \in Lanes : lane[k] \in {Idle} \cup AnyRequest /\ lane = [m \in Lanes |-> lane[m]]
  BY DEF SessionInv, LanesOK, LaneOK
<1>2. CASE Put(l, q)
  <2>1. lane'[l] = q /\ \A k \in Lanes \ {l} : lane'[k] = lane[k]
    BY <1>1, <1>2 DEF Put
  <2> QED  BY <2>1
<1>3. CASE PutAndOutdate(l, q)
  <2>1. lane'[l] = q /\ \A k \in Lanes \ {l} : lane'[k] = Outdated(lane[k])
    BY <1>3 DEF PutAndOutdate
  <2>2. ASSUME NEW r \in AnyRequest, Renews(r)  PROVE Renews(Outdated(r))
    BY <2>2 DEF Renews, Outdated, AnyRequest, Idle, Ops
  <2>3. \A k \in Lanes : Renews(lane[k]) => lane[k] \in AnyRequest  BY <1>1 DEF Renews
  <2> QED  BY <2>1, <2>2, <2>3
<1> QED  BY <1>2, <1>3

(* An answer says neither that a refresh is over nor that one has begun.   *)
LEMMA AnswerRenews ==
  ASSUME NEW r \in AnyRequest, NEW a, NEW fresh, NEW made
  PROVE  Renews(Answered(r, a, fresh, made)) <=> Renews(r)
<1> DEFINE q == Answered(r, a, fresh, made)
<1>1. q.op = r.op /\ q.sub = r.sub  BY DEF Answered, AnyRequest
<1>2. r.op # "idle" /\ Idle.op = "idle"  BY DEF AnyRequest, Ops, Idle
<1>3. q # Idle /\ r # Idle  BY <1>1, <1>2
<1> QED  BY <1>1, <1>3 DEF Renews

(* The server leaves the flags, and every refresh, to the browser.         *)
LEMMA ServerFlags ==
  ASSUME SessionInv, SessionsAssumption, FlagInv, NEW l \in Lanes, Server(l) \/ Lose(l)
  PROVE  FlagInv'
<1> DEFINE r == lane[l]
<1>0. r \in AnyRequest
  BY BusyOK DEF SessionInv, Server, ServeCall, ServeLogin, Lookup, RemoveStale, Reread, Rotate,
                RevokeRefresh, InPhase, Lose
<1>1. ASSUME NEW q \in AnyRequest, q.op = r.op, q.sub = r.sub  PROVE Renews(q) <=> Renews(r)
  <2>1. q # Idle /\ r # Idle  BY <1>0 DEF AnyRequest, Ops, Idle
  <2> QED  BY <2>1, <1>1 DEF Renews
<1>2. ASSUME NEW q, Renews(q) <=> Renews(r), Put(l, q) \/ PutAndOutdate(l, q), UNCHANGED flag
      PROVE  FlagInv'
  <2>1. /\ lane'[l] = q
        /\ \A k \in Lanes \ {l} : Renews(lane[k]) => Renews(lane'[k])
    BY <1>2, OthersRenew
  <2>2. flag'[TabOf[l]] => Renews(lane'[l]) \/ (flag[TabOf[l]] /\ ~Renews(lane[l]))
    BY <2>1, <1>2
  <2> QED  BY <2>1, <2>2, <1>2, OneRequest
<1>3. ASSUME NEW a, NEW fresh, NEW made, UNCHANGED flag,
             \/ Put(l, Answered(r, a, fresh, made))
             \/ PutAndOutdate(l, Answered(r, a, fresh, made))
      PROVE  FlagInv'
  <2>1. Renews(Answered(r, a, fresh, made)) <=> Renews(r)  BY <1>0, AnswerRenews
  <2> QED  BY <2>1, <1>2, <1>3
<1>5. UNCHANGED flag
  BY DEF Server, ServeCall, ServeLogin, Lookup, RemoveStale, Reread, Rotate, RevokeRefresh,
         Lose, browserVars, tabVars
<1> HIDE DEF r
<1>6. CASE \E a : Answer(l, a)  BY <1>6, <1>5, <1>3 DEF Answer, r
<1>7. CASE ServeCall(l) \/ ServeLogin(l) \/ RemoveStale(l) \/ RevokeRefresh(l) \/ Lose(l)
  <2>1. CASE \E a, f, c : PutAndOutdate(l, Answered(lane[l], a, f, c))
    BY <2>1, <1>3, <1>5 DEF r
  <2> QED
    BY <2>1, <1>6, <1>7 DEF ServeCall, ServeLogin, RemoveStale, RevokeRefresh, Lose
<1>8. CASE Lookup(l)
  <2>1. CASE Put(l, [r EXCEPT !.phase = "found", !.seen = version, !.base = root,
                              !.cookie = FALSE])
    <3> DEFINE q == [r EXCEPT !.phase = "found", !.seen = version, !.base = root,
                              !.cookie = FALSE]
    <3>0. root \in Nat /\ version \in Nat  BY DEF SessionInv, RowOK
    <3>1. q \in AnyRequest /\ q.op = r.op /\ q.sub = r.sub  BY <1>0, <3>0 DEF AnyRequest
    <3> HIDE DEF q
    <3> QED  BY <3>1, <2>1, <1>1, <1>2, <1>5 DEF q
  <2>2. CASE Put(l, [r EXCEPT !.phase = "stale", !.cookie = FALSE])
    <3> DEFINE q == [r EXCEPT !.phase = "stale", !.cookie = FALSE]
    <3>1. q \in AnyRequest /\ q.op = r.op /\ q.sub = r.sub  BY <1>0 DEF AnyRequest
    <3> HIDE DEF q
    <3> QED  BY <3>1, <2>2, <1>1, <1>2, <1>5 DEF q
  <2> QED  BY <2>1, <2>2, <1>6, <1>8 DEF Lookup, r
<1>9. CASE Reread(l)
  <2> DEFINE q == [r EXCEPT !.phase = "reread", !.fresh = version]
  <2>1. q \in AnyRequest /\ q.op = r.op /\ q.sub = r.sub
    BY <1>0 DEF AnyRequest, SessionInv, RowOK
  <2>2. Put(l, q)  BY <1>9 DEF Reread, r
  <2> HIDE DEF q
  <2> QED  BY <2>1, <2>2, <1>1, <1>2, <1>5
<1>10. CASE Rotate(l)
  <2> DEFINE q == [r EXCEPT !.phase = "rotated"]
  <2>1. q \in AnyRequest /\ q.op = r.op /\ q.sub = r.sub  BY <1>0 DEF AnyRequest
  <2>2. PutAndOutdate(l, q) \/ PutAndOutdate(l, Answered(r, "ok", r.fresh, TRUE))
    BY <1>10 DEF Rotate, r
  <2> HIDE DEF q
  <2> QED  BY <2>1, <2>2, <1>1, <1>2, <1>3, <1>5
<1> QED  BY <1>7, <1>8, <1>9, <1>10 DEF Server

(* The browser: whoever sets the flag is the refresh that holds it, and    *)
(* every end of a refresh, well or badly, clears the flag of its tab.      *)
LEMMA BrowserFlags ==
  ASSUME SessionInv, SessionsAssumption, FlagInv, NEW l \in Lanes, Browser(l)
  PROVE  FlagInv'
<1> DEFINE r == lane[l]
           t == TabOf[l]
<1>0. r \in AnyRequest /\ t \in Tabs /\ flag \in [Tabs -> BOOLEAN]
  BY BusyOK DEF SessionInv, BrowserOK, SessionsAssumption, Browser, Succeed, NoticeExpiry,
                SendRefresh, Retry, Reject, NetworkError, InPhase
<1>1. r # Idle /\ (Renews(r) <=> r.sub \/ r.op = "renew")
  BY <1>0 DEF AnyRequest, Ops, Idle, Renews
<1>2. ASSUME NEW q, Put(l, q),
             \A u \in Tabs \ {t} : flag'[u] = flag[u],
             flag'[t] => Renews(q) \/ (flag[t] /\ ~Renews(r))
      PROVE  FlagInv'
  BY <1>2, OthersRenew, OneRequest
<1>3. ASSUME NEW q, Put(l, q), NEW b \in BOOLEAN, flag' = [flag EXCEPT ![t] = b],
             b => Renews(q) \/ (flag[t] /\ ~Renews(r))
      PROVE  FlagInv'
  BY <1>0, <1>2, <1>3
<1>4. ASSUME NEW q, Put(l, q), UNCHANGED flag, Renews(q) \/ ~Renews(r)
      PROVE  FlagInv'
  BY <1>2, <1>4
<1> HIDE DEF r, t
<1>5. CASE Succeed(l) \/ NetworkError(l)
  <2>1. Put(l, Idle) /\ ~r.sub  BY <1>5 DEF Succeed, NetworkError, End, r
  <2>2. \/ UNCHANGED flag /\ r.op # "renew"
        \/ flag' = [flag EXCEPT ![t] = IF r.op = "renew" THEN FALSE ELSE flag[t]]
    BY <1>5 DEF Succeed, NetworkError, r, t
  <2>3. CASE r.op = "renew"
    <3>1. flag' = [flag EXCEPT ![t] = FALSE]  BY <2>2, <2>3
    <3> QED  BY <3>1, <2>1, <1>3
  <2>4. CASE r.op # "renew"
    <3>1. UNCHANGED flag  BY <2>2, <2>4, <1>0
    <3>2. ~Renews(r)  BY <2>1, <2>4, <1>1
    <3> QED  BY <3>1, <3>2, <2>1, <1>4
  <2> QED  BY <2>3, <2>4
<1>6. CASE NoticeExpiry(l)
  <2> DEFINE q == [r EXCEPT !.phase = "body"]
  <2>1. q \in AnyRequest /\ q.op = r.op /\ q.sub = r.sub  BY <1>0 DEF AnyRequest
  <2>2. Put(l, q) /\ UNCHANGED flag  BY <1>6 DEF NoticeExpiry, browserVars, tabVars, r
  <2> HIDE DEF q
  <2>3. q # Idle  BY <2>1 DEF AnyRequest, Ops, Idle
  <2>4. Renews(q) <=> Renews(r)  BY <2>1, <2>3, <1>1 DEF Renews
  <2> QED  BY <2>2, <2>4, <1>4
<1>7. CASE SendRefresh(l)
  <2> DEFINE q == Fetch(r.op, t, TRUE, FALSE)
  <2>1. Put(l, q) /\ flag' = [flag EXCEPT ![t] = TRUE]  BY <1>7 DEF SendRefresh, r, t
  <2>2. q.sub /\ q.op = r.op  BY DEF Fetch
  <2> HIDE DEF q
  <2>3. r.op # "idle" /\ Idle.op = "idle"  BY <1>0 DEF AnyRequest, Ops, Idle
  <2>4. q # Idle  BY <2>2, <2>3
  <2> QED  BY <2>1, <2>2, <2>4, <1>3 DEF Renews
<1>8. CASE Retry(l)
  <2>1. \E q : Put(l, q) /\ flag' = [flag EXCEPT ![t] = FALSE]  BY <1>8 DEF Retry, t
  <2> QED  BY <2>1, <1>3
<1>9. CASE Reject(l)
  <2>1. CASE Put(l, [Fetch("renew", t, FALSE, FALSE) EXCEPT !.token = NoToken])
             /\ flag' = [flag EXCEPT ![t] = TRUE]
    <3> DEFINE q == [Fetch("renew", t, FALSE, FALSE) EXCEPT !.token = NoToken]
    <3>1. q.op = "renew"  BY DEF Fetch
    <3>2. q # Idle  BY <3>1 DEF Idle
    <3> HIDE DEF q
    <3> QED  BY <3>1, <3>2, <2>1, <1>3 DEF Renews, q
  <2>2. CASE /\ \E q : Put(l, q)
             /\ flag' = [flag EXCEPT ![t] = IF r.sub \/ r.op = "renew" THEN FALSE ELSE flag[t]]
    <3>1. CASE r.sub \/ r.op = "renew"
      <4>1. flag' = [flag EXCEPT ![t] = FALSE]  BY <2>2, <3>1
      <4> QED  BY <4>1, <2>2, <1>3
    <3>2. CASE ~(r.sub \/ r.op = "renew")
      <4>1. UNCHANGED flag  BY <2>2, <3>2, <1>0
      <4>2. ~Renews(r)  BY <3>2, <1>1
      <4> QED  BY <4>1, <4>2, <2>2, <1>4
    <3> QED  BY <3>1, <3>2
  <2> QED  BY <2>1, <2>2, <1>9 DEF Reject, End, r, t
<1> QED  BY <1>5, <1>6, <1>7, <1>8, <1>9 DEF Browser

(* A request that starts in a quiet lane takes no flag from another; a tab *)
(* that is loaded again sets it only for the refresh it sends.             *)
LEMMA StartFlags ==
  ASSUME SessionInv, SessionsAssumption, FlagInv,
         \/ \E l \in Lanes, op \in {"call", "login", "logout", "revoke"} : Start(l, op)
         \/ \E t \in Tabs : Open(t)
  PROVE  FlagInv'
<1>0. flag \in [Tabs -> BOOLEAN]  BY DEF SessionInv, BrowserOK
<1>1. ASSUME NEW l \in Lanes, NEW op, Start(l, op)  PROVE FlagInv'
  <2>1. ~Renews(lane[l]) /\ UNCHANGED flag
    BY <1>1 DEF Start, Busy, Renews, browserVars, tabVars
  <2>2. \A k \in Lanes \ {l} : Renews(lane[k]) => Renews(lane'[k])
    BY <1>1, OthersRenew DEF Start
  <2> QED  BY <2>1, <2>2, OneRequest
<1>2. ASSUME NEW t \in Tabs, Open(t)  PROVE FlagInv'
  <2>1. PICK l \in Of(t) :
          \/ Put(l, Fetch("boot", t, FALSE, FALSE)) /\ UNCHANGED flag
          \/ Put(l, Fetch("renew", t, FALSE, FALSE)) /\ flag' = [flag EXCEPT ![t] = TRUE]
          \/ UNCHANGED <<flag, lane>>
    BY <1>2 DEF Open
  <2>2. l \in Lanes /\ TabOf[l] = t /\ ~Renews(lane[l])
    BY <1>2 DEF Open, Of, Busy, Renews
  <2>3. CASE Put(l, Fetch("boot", t, FALSE, FALSE)) /\ UNCHANGED flag
    <3>1. \A k \in Lanes \ {l} : Renews(lane[k]) => Renews(lane'[k])
      BY <2>2, <2>3, OthersRenew
    <3> QED  BY <3>1, <2>2, <2>3, OneRequest
  <2>4. CASE Put(l, Fetch("renew", t, FALSE, FALSE)) /\ flag' = [flag EXCEPT ![t] = TRUE]
    <3> DEFINE q == Fetch("renew", t, FALSE, FALSE)
    <3>1. q.op = "renew"  BY DEF Fetch
    <3> HIDE DEF q
    <3>2. Renews(q)  BY <3>1 DEF Idle, Renews
    <3>3. Renews(lane'[l]) /\ \A k \in Lanes \ {l} : Renews(lane[k]) => Renews(lane'[k])
      BY <3>2, <2>2, <2>4, OthersRenew DEF q
    <3>4. \A u \in Tabs \ {t} : flag'[u] = flag[u]  BY <2>4, <1>0
    <3> QED  BY <3>3, <3>4, <2>2, OneRequest
  <2>5. CASE UNCHANGED <<flag, lane>>  BY <2>5 DEF FlagInv
  <2> QED  BY <2>1, <2>3, <2>4, <2>5
<1> QED  BY <1>1, <1>2

(* What happens elsewhere leaves every refresh of this browser under way.  *)
LEMMA ElsewhereFlags ==
  ASSUME SessionInv, FlagInv, LoginElsewhere \/ RevokeElsewhere
  PROVE  FlagInv'
<1>1. OutdateAll /\ UNCHANGED flag  BY DEF LoginElsewhere, RevokeElsewhere, tabVars
<1>2. ASSUME NEW r \in AnyRequest, Renews(r)  PROVE Renews(Outdated(r))
  BY <1>2 DEF Renews, Outdated, AnyRequest, Idle, Ops
<1>3. \A k \in Lanes : Renews(lane[k]) => lane[k] \in AnyRequest
  BY DEF SessionInv, LanesOK, LaneOK, Renews
<1>4. \A k \in Lanes : Renews(lane[k]) => Renews(lane'[k])
  BY <1>1, <1>2, <1>3 DEF OutdateAll
<1> QED  BY <1>1, <1>4 DEF FlagInv, Of

(* No tab is left with isRefreshing set: as long as it is, one of the      *)
(* tab's own requests is the refresh that will clear it, for any number of *)
(* requests that find their token expired together (api.ts:118-150).       *)
THEOREM NoRefreshIsForgotten == Spec => []FlagClearWhenQuiet
<1>1. Init => FlagInv  BY DEF Init, FlagInv
<1>2. SessionInv /\ FlagInv /\ [Next]_vars => FlagInv'
  <2> SUFFICES ASSUME SessionInv, FlagInv, [Next]_vars  PROVE FlagInv'
    OBVIOUS
  <2>1. CASE UNCHANGED vars  BY <2>1 DEF vars, FlagInv
  <2>2. CASE Next
    BY <2>2, ServerFlags, BrowserFlags, StartFlags, ElsewhereFlags, SessionsAssumption DEF Next
  <2> QED  BY <2>1, <2>2
<1>3. FlagInv => FlagClearWhenQuiet  BY DEF FlagInv, FlagClearWhenQuiet, Renews, Busy
<1> QED  BY <1>1, <1>2, <1>3, SessionInit, SessionNext, PTL DEF Spec

-----------------------------------------------------------------------------
\* Nothing read or written is of a version that was not reached yet.
Bounded(r, v) ==
  r # Idle => r.token <= v /\ r.seen <= v /\ r.base <= v /\ r.fresh <= v

\* A request to revoke all sessions that the server has not served.
WillRevoke(r) ==
  /\ r # Idle /\ r.op = "revoke"
  /\ ~ (r.phase = "answered" /\ ~r.sub /\ r.answer \in {"ok", "lost"})

Revoking == {l \in Lanes : WillRevoke(lane[l])}

\* Every request on its way can take its version.
VersionInv ==
  /\ version >= 1 /\ version + Cardinality(Revoking) <= MaxVersion
  /\ refresh \in BOOLEAN /\ hint \in BOOLEAN
  /\ page \in [Tabs -> {"loading", "in", "out"}]
  /\ \A t \in Tabs : token[t] <= version
  /\ \A l \in Lanes : Bounded(lane[l], version)

(* A request that goes out of date is the same request, of the same        *)
(* versions.                                                               *)
LEMMA OutdatedBounded ==
  ASSUME NEW r \in {Idle} \cup AnyRequest, NEW v \in Nat, Bounded(r, v)
  PROVE  Bounded(Outdated(r), v) /\ (WillRevoke(Outdated(r)) => WillRevoke(r))
<1>1. CASE r = Idle  BY <1>1 DEF Outdated, Bounded
<1>2. CASE r # Idle
  <2> DEFINE q == Outdated(r)
  <2>1. r \in AnyRequest  BY <1>2
  <2>2. /\ q.op = r.op /\ q.phase = r.phase /\ q.sub = r.sub /\ q.answer = r.answer
        /\ q.token = r.token /\ q.seen = r.seen /\ q.base = r.base /\ q.fresh = r.fresh
    BY <1>2, <2>1 DEF Outdated, AnyRequest
  <2> HIDE DEF q
  <2>3. Bounded(q, v)  BY <1>2, <2>2 DEF Bounded
  <2>4. WillRevoke(q) => WillRevoke(r)  BY <1>2, <2>2 DEF WillRevoke
  <2> QED  BY <2>3, <2>4 DEF q
<1> QED  BY <1>1, <1>2

(* One request moves on.  It takes a version of its own only if it has not *)
(* taken one, and no other request is disturbed.                           *)
LEMMA LaneMoves ==
  ASSUME SessionInv, VersionInv, IsFiniteSet(Lanes), SessionsAssumption,
         NEW l \in Lanes, NEW q, Put(l, q) \/ PutAndOutdate(l, q),
         Bounded(q, version'), version' \in Nat,
         \/ version' = version /\ (WillRevoke(q) => WillRevoke(lane[l]))
         \/ version' = version + 1 /\ ~WillRevoke(q) /\ WillRevoke(lane[l])
         \/ version' = version /\ version + Cardinality(Revoking) < MaxVersion,
         refresh' \in BOOLEAN, hint' \in BOOLEAN, page' \in [Tabs -> {"loading", "in", "out"}],
         \A t \in Tabs : token'[t] <= version'
  PROVE  VersionInv'
<1>1. version \in Nat /\ MaxVersion \in Nat /\ version <= version'
  BY DEF SessionInv, RowOK, SessionsAssumption
<1>2. \A k \in Lanes : lane[k] \in {Idle} \cup AnyRequest /\ lane = [m \in Lanes |-> lane[m]]
  BY DEF SessionInv, LanesOK, LaneOK
<1>3. /\ lane'[l] = q
      /\ \A k \in Lanes \ {l} : lane'[k] = lane[k] \/ lane'[k] = Outdated(lane[k])
  <2>1. CASE Put(l, q)  BY <1>2, <2>1 DEF Put
  <2>2. CASE PutAndOutdate(l, q)  BY <2>2 DEF PutAndOutdate
  <2> QED  BY <2>1, <2>2
<1>4. ASSUME NEW r \in {Idle} \cup AnyRequest, Bounded(r, version)  PROVE Bounded(r, version')
  <2>1. CASE r = Idle  BY <2>1 DEF Bounded
  <2>2. CASE r # Idle
    <3>1. r.token \in Nat /\ r.seen \in Nat /\ r.base \in Nat /\ r.fresh \in Nat
      BY <2>2 DEF AnyRequest
    <3> QED  BY <1>1, <1>4, <2>2, <3>1 DEF Bounded
  <2> QED  BY <2>1, <2>2
<1>5. \A k \in Lanes \ {l} : /\ Bounded(lane'[k], version')
                             /\ WillRevoke(lane'[k]) => WillRevoke(lane[k])
  <2> SUFFICES ASSUME NEW k \in Lanes \ {l}
               PROVE  /\ Bounded(lane'[k], version')
                      /\ WillRevoke(lane'[k]) => WillRevoke(lane[k])
    OBVIOUS
  <2>1. lane[k] \in {Idle} \cup AnyRequest /\ Bounded(lane[k], version)
    BY <1>2 DEF VersionInv
  <2>2. Bounded(lane[k], version')  BY <1>4, <2>1
  <2> QED  BY <1>3, <2>1, <2>2, OutdatedBounded
<1>6. \A k \in Lanes : Bounded(lane'[k], version')  BY <1>3, <1>5
<1>7. version' + Cardinality(Revoking') <= MaxVersion
  <2>1. IsFiniteSet(Revoking) /\ IsFiniteSet(Revoking')
    BY FS_Subset DEF Revoking
  <2>2. Cardinality(Revoking) \in Nat /\ Cardinality(Revoking') \in Nat
    BY <2>1, FS_CardinalityType
  <2>3. version + Cardinality(Revoking) <= MaxVersion  BY DEF VersionInv
  <2>4. CASE version' = version /\ (WillRevoke(q) => WillRevoke(lane[l]))
    <3>1. Revoking' \subseteq Revoking  BY <1>3, <1>5, <2>4 DEF Revoking
    <3>2. Cardinality(Revoking') <= Cardinality(Revoking)  BY <2>1, <3>1, FS_Subset
    <3> QED  BY <1>1, <2>2, <2>3, <2>4, <3>2
  <2>5. CASE version' = version + 1 /\ ~WillRevoke(q) /\ WillRevoke(lane[l])
    <3>1. l \in Revoking /\ Revoking' \subseteq Revoking \ {l}
      BY <1>3, <1>5, <2>5 DEF Revoking
    <3>2. IsFiniteSet(Revoking \ {l}) /\ Cardinality(Revoking \ {l}) = Cardinality(Revoking) - 1
      BY <2>1, <3>1, FS_RemoveElement
    <3>3. Cardinality(Revoking') <= Cardinality(Revoking \ {l})  BY <3>1, <3>2, FS_Subset
    <3>4. Cardinality(Revoking') <= Cardinality(Revoking) - 1  BY <3>2, <3>3
    <3> QED  BY <1>1, <2>2, <2>3, <2>5, <3>4
  <2>6. CASE version' = version /\ version + Cardinality(Revoking) < MaxVersion
    <3>1. Revoking' \subseteq Revoking \cup {l}  BY <1>3, <1>5 DEF Revoking
    <3>2. /\ IsFiniteSet(Revoking \cup {l})
          /\ Cardinality(Revoking \cup {l}) <= Cardinality(Revoking) + 1
      <4>1. /\ IsFiniteSet(Revoking \cup {l})
            /\ Cardinality(Revoking \cup {l}) =
                 IF l \in Revoking THEN Cardinality(Revoking) ELSE Cardinality(Revoking) + 1
        BY <2>1, FS_AddElement
      <4> QED  BY <2>2, <4>1
    <3>3. Cardinality(Revoking') <= Cardinality(Revoking \cup {l})  BY <3>1, <3>2, FS_Subset
    <3>4. Cardinality(Revoking \cup {l}) \in Nat  BY <3>2, FS_CardinalityType
    <3> QED  BY <1>1, <2>2, <2>6, <3>2, <3>3, <3>4
  <2> QED  BY <2>4, <2>5, <2>6
<1>8. version' >= 1  BY <1>1 DEF VersionInv
<1> QED  BY <1>6, <1>7, <1>8 DEF VersionInv

(* What a request answers is of a version that was reached, and a request  *)
(* that was answered well or got lost takes no more versions.              *)
LEMMA AnsweredBounded ==
  ASSUME NEW r \in AnyRequest, NEW v \in Nat, NEW a, NEW fresh \in 0 .. v, NEW made,
         r.phase # "answered" \/ a = "lost"
  PROVE  /\ Bounded(Answered(r, a, fresh, made), v)
         /\ WillRevoke(Answered(r, a, fresh, made)) => WillRevoke(r)
         /\ ~r.sub /\ a = "ok" => ~WillRevoke(Answered(r, a, fresh, made))
<1> DEFINE q == Answered(r, a, fresh, made)
<1>1. /\ q.token = 0 /\ q.seen = 0 /\ q.base = 0 /\ q.fresh = fresh
      /\ q.op = r.op /\ q.phase = "answered" /\ q.sub = r.sub /\ q.answer = a
  BY DEF Answered, AnyRequest, NoToken
<1>2. r # Idle  BY DEF AnyRequest, Ops, Idle
<1> HIDE DEF q
<1>3. Bounded(q, v)  BY <1>1 DEF Bounded
<1>4. WillRevoke(q) => WillRevoke(r)  BY <1>1, <1>2 DEF WillRevoke
<1>5. ~r.sub /\ a = "ok" => ~WillRevoke(q)  BY <1>1 DEF WillRevoke
<1> QED  BY <1>3, <1>4, <1>5 DEF q

(* The server reads the version of now, and a revocation that it serves    *)
(* takes the version that was kept for it.                                 *)
LEMMA ServerVersions ==
  ASSUME SessionInv, VersionInv, IsFiniteSet(Lanes), SessionsAssumption,
         NEW l \in Lanes, Server(l) \/ Lose(l)
  PROVE  VersionInv'
<1> DEFINE r == lane[l]
<1>0. /\ r \in AnyRequest /\ r # Idle /\ version \in Nat /\ root \in {0, version}
      /\ token \in [Tabs -> Nat] /\ Bounded(r, version) /\ r.fresh \in 0 .. version
  <2>1. r \in AnyRequest
    BY BusyOK DEF SessionInv, Server, ServeCall, ServeLogin, Lookup, RemoveStale, Reread, Rotate,
                  RevokeRefresh, InPhase, Lose
  <2>2. r # Idle  BY <2>1 DEF AnyRequest, Ops, Idle
  <2>3. Bounded(r, version)  BY DEF VersionInv
  <2>4. r.fresh \in Nat  BY <2>1 DEF AnyRequest
  <2>5. version \in Nat /\ root \in {0, version} /\ token \in [Tabs -> Nat]
    BY DEF SessionInv, RowOK, BrowserOK
  <2> QED  BY <2>1, <2>2, <2>3, <2>4, <2>5 DEF Bounded
<1>1. UNCHANGED tabVars
  BY DEF Server, ServeCall, ServeLogin, Lookup, RemoveStale, Reread, Rotate, RevokeRefresh,
         Lose, browserVars
<1>2. /\ hint' \in BOOLEAN /\ page' \in [Tabs -> {"loading", "in", "out"}]
      /\ \A t \in Tabs : token'[t] <= version
  BY <1>1 DEF tabVars, VersionInv
<1>3. ASSUME NEW q, Put(l, q) \/ PutAndOutdate(l, q), Bounded(q, version),
             WillRevoke(q) => WillRevoke(r), version' = version, refresh' \in BOOLEAN
      PROVE  VersionInv'
  BY <1>0, <1>2, <1>3, LaneMoves
<1>4. ASSUME NEW a, NEW fresh \in 0 .. version, NEW made, r.phase # "answered" \/ a = "lost",
             \/ Put(l, Answered(r, a, fresh, made))
             \/ PutAndOutdate(l, Answered(r, a, fresh, made)),
             version' = version, refresh' \in BOOLEAN
      PROVE  VersionInv'
  <2> DEFINE q == Answered(r, a, fresh, made)
  <2>1. Bounded(q, version) /\ (WillRevoke(q) => WillRevoke(r))
    BY <1>0, <1>4, AnsweredBounded
  <2> HIDE DEF q
  <2> QED  BY <1>3, <1>4, <2>1 DEF q
<1>5. refresh \in BOOLEAN /\ 0 \in 0 .. version /\ version \in 0 .. version
  BY <1>0 DEF VersionInv
<1> HIDE DEF r
<1>6. ASSUME NEW a, Answer(l, a), r.phase # "answered" \/ a = "lost", UNCHANGED serverVars
      PROVE  VersionInv'
  BY <1>4, <1>5, <1>6 DEF Answer, serverVars, NoToken, r
<1>7. CASE ServeCall(l)
  <2>0. r.phase = "sent" /\ ~r.sub  BY <1>7 DEF ServeCall, InPhase, r
  <2>1. CASE \E a : Answer(l, a) /\ UNCHANGED serverVars
    BY <1>6, <2>0, <2>1
  <2>2. CASE /\ r.op = "revoke" /\ RevokeAll
             /\ PutAndOutdate(l, Answered(r, "ok", NoToken, FALSE))
    <3> DEFINE q == Answered(r, "ok", NoToken, FALSE)
    <3>1. /\ version' = version + 1 /\ refresh' = FALSE /\ version' \in Nat
          /\ \A t \in Tabs : token'[t] <= version'
      <4>1. \A t \in Tabs : token'[t] = token[t] /\ token[t] \in Nat
        BY <1>0, <1>1 DEF tabVars
      <4> QED  BY <1>0, <1>2, <2>2, <4>1 DEF RevokeAll
    <3>2. WillRevoke(r)  BY <1>0, <2>0, <2>2 DEF WillRevoke
    <3>3. Bounded(q, version') /\ ~WillRevoke(q)
      <4>1. NoToken \in 0 .. version'  BY <3>1 DEF NoToken
      <4> QED  BY <1>0, <2>0, <3>1, <4>1, AnsweredBounded
    <3> HIDE DEF q
    <3>4. PutAndOutdate(l, q) /\ WillRevoke(lane[l])  BY <2>2, <3>2 DEF q, r
    <3> QED  BY <1>2, <3>1, <3>3, <3>4, LaneMoves
  <2> QED  BY <1>7, <2>1, <2>2 DEF ServeCall, r
<1>8. CASE ServeLogin(l)
  <2>0. r.phase = "sent"  BY <1>8 DEF ServeLogin, InPhase, r
  <2>1. CASE Answer(l, "denied") /\ UNCHANGED serverVars  BY <1>6, <2>0, <2>1
  <2>2. CASE /\ refresh' = TRUE /\ version' = version
             /\ PutAndOutdate(l, Answered(r, "ok", version, TRUE))
    BY <1>4, <1>5, <2>0, <2>2
  <2> QED  BY <1>8, <2>1, <2>2 DEF ServeLogin, r
<1>9. CASE Lookup(l)
  <2>0. r.phase = "sent" /\ UNCHANGED serverVars /\ version' = version /\ refresh' \in BOOLEAN
    BY <1>5, <1>9 DEF Lookup, InPhase, serverVars, r
  <2>1. CASE Answer(l, NotAccepted(r))  BY <1>6, <2>0, <2>1
  <2>2. CASE Put(l, [r EXCEPT !.phase = "found", !.seen = version, !.base = root,
                              !.cookie = FALSE])
    <3> DEFINE q == [r EXCEPT !.phase = "found", !.seen = version, !.base = root,
                              !.cookie = FALSE]
    <3>1. /\ q.seen = version /\ q.base = root /\ q.token = r.token /\ q.fresh = r.fresh
          /\ q.op = r.op
      BY <1>0 DEF AnyRequest
    <3>2. Put(l, q)  BY <2>2
    <3> HIDE DEF q
    <3>3. Bounded(q, version)  BY <1>0, <3>1 DEF Bounded
    <3>4. WillRevoke(q) => WillRevoke(r)  BY <1>0, <2>0, <3>1 DEF WillRevoke
    <3> QED  BY <1>3, <2>0, <3>2, <3>3, <3>4
  <2>3. CASE Put(l, [r EXCEPT !.phase = "stale", !.cookie = FALSE])
    <3> DEFINE q == [r EXCEPT !.phase = "stale", !.cookie = FALSE]
    <3>1. /\ q.seen = r.seen /\ q.base = r.base /\ q.token = r.token /\ q.fresh = r.fresh
          /\ q.op = r.op
      BY <1>0 DEF AnyRequest
    <3>2. Put(l, q)  BY <2>3
    <3> HIDE DEF q
    <3>3. Bounded(q, version)  BY <1>0, <3>1 DEF Bounded
    <3>4. WillRevoke(q) => WillRevoke(r)  BY <1>0, <2>0, <3>1 DEF WillRevoke
    <3> QED  BY <1>3, <2>0, <3>2, <3>3, <3>4
  <2> QED  BY <1>9, <2>1, <2>2, <2>3 DEF Lookup, r
<1>10. CASE RemoveStale(l) \/ RevokeRefresh(l)
  <2>1. r.phase # "answered" /\ version' = version /\ refresh' \in BOOLEAN
    BY <1>10 DEF RemoveStale, RevokeRefresh, InPhase, r
  <2>2. \E a : PutAndOutdate(l, Answered(r, a, NoToken, FALSE))
    BY <1>10 DEF RemoveStale, RevokeRefresh, r
  <2> QED  BY <1>4, <1>5, <2>1, <2>2 DEF NoToken
<1>11. CASE Reread(l)
  <2>0. r.phase = "found" /\ version' = version /\ refresh' \in BOOLEAN
    BY <1>5, <1>11 DEF Reread, InPhase, serverVars, r
  <2> DEFINE q == [r EXCEPT !.phase = "reread", !.fresh = version]
  <2>1. /\ q.seen = r.seen /\ q.base = r.base /\ q.token = r.token /\ q.fresh = version
        /\ q.op = r.op
    BY <1>0 DEF AnyRequest
  <2>2. Put(l, q)  BY <1>11 DEF Reread, r
  <2> HIDE DEF q
  <2>3. Bounded(q, version)  BY <1>0, <2>1 DEF Bounded
  <2>4. WillRevoke(q) => WillRevoke(r)  BY <1>0, <2>0, <2>1 DEF WillRevoke
  <2> QED  BY <1>3, <2>0, <2>2, <2>3, <2>4
<1>12. CASE Rotate(l)
  <2>0. r.phase = "reread" /\ version' = version /\ refresh' \in BOOLEAN
    BY <1>12 DEF Rotate, InPhase, r
  <2> DEFINE q == [r EXCEPT !.phase = "rotated"]
  <2>1. /\ q.seen = r.seen /\ q.base = r.base /\ q.token = r.token /\ q.fresh = r.fresh
        /\ q.op = r.op
    BY <1>0 DEF AnyRequest
  <2>2. PutAndOutdate(l, q) \/ PutAndOutdate(l, Answered(r, "ok", r.fresh, TRUE))
    BY <1>12 DEF Rotate, r
  <2> HIDE DEF q
  <2>3. Bounded(q, version)  BY <1>0, <2>1 DEF Bounded
  <2>4. WillRevoke(q) => WillRevoke(r)  BY <1>0, <2>0, <2>1 DEF WillRevoke
  <2> QED  BY <1>0, <1>3, <1>4, <2>0, <2>2, <2>3, <2>4
<1>13. CASE Lose(l)
  BY <1>6, <1>13 DEF Lose
<1> QED  BY <1>7, <1>8, <1>9, <1>10, <1>11, <1>12, <1>13 DEF Server

(* A request that leaves has the version of its tab's token.               *)
LEMMA FetchBounded ==
  ASSUME NEW t \in Tabs, NEW v \in Nat, token[t] <= v, NEW op \in Ops, NEW sub, NEW retried
  PROVE  /\ Bounded(Fetch(op, t, sub, retried), v)
         /\ \A k \in 0 .. v : \A c :
              Bounded([Fetch(op, t, sub, retried) EXCEPT !.token = k, !.cookie = c], v)
         /\ \A k \in 0 .. v : Bounded([Fetch(op, t, sub, retried) EXCEPT !.token = k], v)
         /\ op # "revoke" =>
              /\ ~WillRevoke(Fetch(op, t, sub, retried))
              /\ \A k : ~WillRevoke([Fetch(op, t, sub, retried) EXCEPT !.token = k])
<1> DEFINE q == Fetch(op, t, sub, retried)
<1>1. /\ q.token <= v /\ q.seen = 0 /\ q.base = 0 /\ q.fresh = 0 /\ q.op = op
      /\ \A k, c : LET p == [q EXCEPT !.token = k, !.cookie = c]
                   IN  p.token = k /\ p.seen = 0 /\ p.base = 0 /\ p.fresh = 0
      /\ \A k : LET p == [q EXCEPT !.token = k]
                IN  p.token = k /\ p.seen = 0 /\ p.base = 0 /\ p.fresh = 0 /\ p.op = op
  BY DEF Fetch, NoToken
<1> HIDE DEF q
<1>2. Bounded(q, v) /\ (op # "revoke" => ~WillRevoke(q))  BY <1>1 DEF Bounded, WillRevoke
<1>3. \A k \in 0 .. v : \A c : Bounded([q EXCEPT !.token = k, !.cookie = c], v)
  BY <1>1 DEF Bounded
<1>4. \A k \in 0 .. v : Bounded([q EXCEPT !.token = k], v)  BY <1>1 DEF Bounded
<1>5. op # "revoke" => \A k : ~WillRevoke([q EXCEPT !.token = k])  BY <1>1 DEF WillRevoke
<1> QED  BY <1>2, <1>3, <1>4, <1>5 DEF q

(* What the browser keeps of an answer is of a version that was reached; a *)
(* request to revoke that is sent again has not been served.               *)
LEMMA BrowserVersions ==
  ASSUME SessionInv, VersionInv, IsFiniteSet(Lanes), SessionsAssumption,
         NEW l \in Lanes, Browser(l)
  PROVE  VersionInv'
<1> DEFINE r == lane[l]
           t == TabOf[l]
<1>0. /\ r \in AnyRequest /\ r # Idle /\ version \in Nat /\ t \in Tabs /\ r.op \in Ops
      /\ token \in [Tabs -> Nat] /\ Bounded(r, version) /\ r.fresh \in 0 .. version
      /\ hint \in BOOLEAN /\ page \in [Tabs -> {"loading", "in", "out"}]
      /\ \A u \in Tabs : token[u] <= version
  <2>1. r \in AnyRequest
    BY BusyOK DEF SessionInv, Browser, Succeed, NoticeExpiry, SendRefresh, Retry, Reject,
                  NetworkError, InPhase
  <2>2. r # Idle /\ r.op \in Ops  BY <2>1 DEF AnyRequest, Ops, Idle
  <2>3. Bounded(r, version)  BY DEF VersionInv
  <2>4. r.fresh \in Nat  BY <2>1 DEF AnyRequest
  <2>5. version \in Nat /\ token \in [Tabs -> Nat] /\ t \in Tabs
    BY DEF SessionInv, RowOK, BrowserOK, SessionsAssumption
  <2> QED  BY <2>1, <2>2, <2>3, <2>4, <2>5 DEF Bounded, VersionInv
<1>1. version' = version /\ refresh' \in BOOLEAN
  BY DEF Browser, Succeed, NoticeExpiry, SendRefresh, Retry, Reject, NetworkError, serverVars,
         VersionInv
<1>2. ASSUME NEW q, Put(l, q), Bounded(q, version), WillRevoke(q) => WillRevoke(r),
             \/ token' = token
             \/ \E v \in 0 .. version : token' = [token EXCEPT ![t] = v],
             hint' \in BOOLEAN, page' \in [Tabs -> {"loading", "in", "out"}]
      PROVE  VersionInv'
  <2>1. \A u \in Tabs : token'[u] <= version  BY <1>0, <1>2
  <2> QED  BY <1>0, <1>1, <1>2, <2>1, LaneMoves
<1>3. /\ 0 \in 0 .. version /\ NoToken = 0
      /\ Bounded(Idle, version) /\ ~WillRevoke(Idle)
  BY <1>0 DEF Bounded, WillRevoke, NoToken
<1>4. ASSUME NEW op \in Ops, NEW sub \in BOOLEAN, NEW again \in BOOLEAN
      PROVE  /\ Bounded(Fetch(op, t, sub, again), version)
             /\ Bounded([Fetch(op, t, sub, again) EXCEPT !.token = NoToken], version)
             /\ Bounded([Fetch(op, t, sub, again) EXCEPT !.token = r.fresh, !.cookie = r.made],
                        version)
             /\ op # "revoke" => /\ ~WillRevoke(Fetch(op, t, sub, again))
                                 /\ ~WillRevoke([Fetch(op, t, sub, again) EXCEPT !.token = NoToken])
  BY <1>0, <1>3, FetchBounded
<1>5. \A p \in {"loading", "in", "out"} :
        [page EXCEPT ![t] = p] \in [Tabs -> {"loading", "in", "out"}]
  BY <1>0
<1>6. page[t] \in {"loading", "in", "out"}  BY <1>0
<1>7. \A op, sub, again : WillRevoke(Fetch(op, t, sub, again)) => op = "revoke"
  BY DEF WillRevoke, Fetch
<1>8. \A op, sub, again, v, c :
        WillRevoke([Fetch(op, t, sub, again) EXCEPT !.token = v, !.cookie = c]) => op = "revoke"
  BY DEF WillRevoke, Fetch
<1> HIDE DEF r, t
<1>9. CASE Succeed(l)
  <2>1. Put(l, Idle)  BY <1>9 DEF Succeed, End
  <2>2. token' = token \/ \E v \in 0 .. version : token' = [token EXCEPT ![t] = v]
    BY <1>0, <1>3, <1>9 DEF Succeed, Keep, r, t
  <2>3. hint' \in BOOLEAN  BY <1>0, <1>9 DEF Succeed, Keep
  <2>4. page' \in [Tabs -> {"loading", "in", "out"}]
    <3>1. \E p \in {"loading", "in", "out"} : page' = [page EXCEPT ![t] = p]
      BY <1>6, <1>9 DEF Succeed, End, r, t
    <3> QED  BY <1>5, <3>1
  <2> QED  BY <1>2, <1>3, <2>1, <2>2, <2>3, <2>4
<1>10. CASE NetworkError(l)
  <2>1. Put(l, Idle)  BY <1>10 DEF NetworkError, End
  <2>2. token' = token \/ \E v \in 0 .. version : token' = [token EXCEPT ![t] = v]
    <3>1. token[t] \in 0 .. version  BY <1>0
    <3>2. token' = [token EXCEPT ![t] = IF r.op = "logout" THEN NoToken ELSE token[t]]
      BY <1>10 DEF NetworkError, r, t
    <3>3. (IF r.op = "logout" THEN NoToken ELSE token[t]) \in 0 .. version  BY <1>3, <3>1
    <3> QED  BY <3>2, <3>3
  <2>3. hint' \in BOOLEAN  BY <1>10 DEF NetworkError
  <2>4. page' \in [Tabs -> {"loading", "in", "out"}]
    <3>1. \E p \in {"loading", "in", "out"} : page' = [page EXCEPT ![t] = p]
      BY <1>6, <1>10 DEF NetworkError, End, r, t
    <3> QED  BY <1>5, <3>1
  <2> QED  BY <1>2, <1>3, <2>1, <2>2, <2>3, <2>4
<1>11. CASE NoticeExpiry(l)
  <2> DEFINE q == [r EXCEPT !.phase = "body"]
  <2>1. /\ q.seen = r.seen /\ q.base = r.base /\ q.token = r.token /\ q.fresh = r.fresh
        /\ q.op = r.op
    BY <1>0 DEF AnyRequest
  <2>2. Put(l, q) /\ token' = token /\ hint' = hint /\ page' = page /\ r.answer = "expired"
    BY <1>11 DEF NoticeExpiry, browserVars, tabVars, r
  <2> HIDE DEF q
  <2>3. Bounded(q, version)  BY <1>0, <2>1 DEF Bounded
  <2>4. WillRevoke(q) => WillRevoke(r)  BY <1>0, <2>1, <2>2 DEF WillRevoke
  <2> QED  BY <1>0, <1>2, <2>2, <2>3, <2>4
<1>12. CASE SendRefresh(l)
  <2> DEFINE q == Fetch(r.op, t, TRUE, FALSE)
  <2>1. /\ Put(l, q) /\ token' = token /\ hint' = hint /\ page' = page /\ r.phase = "body"
    BY <1>12 DEF SendRefresh, InPhase, r, t
  <2>2. Bounded(q, version)  BY <1>0, <1>4
  <2>3. WillRevoke(q) => WillRevoke(r)
    <3>1. WillRevoke(q) => r.op = "revoke"  BY <1>7
    <3> QED  BY <1>0, <2>1, <3>1 DEF WillRevoke
  <2> HIDE DEF q
  <2> QED  BY <1>0, <1>2, <2>1, <2>2, <2>3
<1>13. CASE Retry(l)
  <2> DEFINE q == [Fetch(r.op, t, FALSE, TRUE) EXCEPT !.token = r.fresh, !.cookie = r.made]
  <2>1. /\ Put(l, q) /\ token' = [token EXCEPT ![t] = r.fresh] /\ hint' = TRUE /\ page' = page
        /\ r.sub
    BY <1>13 DEF Retry, Keep, r, t
  <2>2. Bounded(q, version)  BY <1>0, <1>4
  <2>3. WillRevoke(q) => WillRevoke(r)
    <3>1. WillRevoke(q) => r.op = "revoke"  BY <1>8
    <3> QED  BY <1>0, <2>1, <3>1 DEF WillRevoke
  <2> HIDE DEF q
  <2> QED  BY <1>0, <1>2, <2>1, <2>2, <2>3
<1>14. CASE Reject(l)
  <2>1. /\ \/ Put(l, Idle)
           \/ Put(l, [Fetch("renew", t, FALSE, FALSE) EXCEPT !.token = NoToken])
           \/ Put(l, [Fetch("logout", t, FALSE, FALSE) EXCEPT !.token = NoToken])
        /\ token' = [token EXCEPT ![t] = NoToken] /\ hint' \in BOOLEAN
    BY <1>14 DEF Reject, End, t
  <2>2. page' \in [Tabs -> {"loading", "in", "out"}]
    <3>1. page' = page \/ \E p \in {"loading", "in", "out"} : page' = [page EXCEPT ![t] = p]
      BY <1>6, <1>14 DEF Reject, End, r, t
    <3> QED  BY <1>0, <1>5, <3>1
  <2>3. "renew" \in Ops /\ "logout" \in Ops  BY DEF Ops
  <2>4. ASSUME NEW op \in {"renew", "logout"},
               Put(l, [Fetch(op, t, FALSE, FALSE) EXCEPT !.token = NoToken])
        PROVE  VersionInv'
    <3> DEFINE q == [Fetch(op, t, FALSE, FALSE) EXCEPT !.token = NoToken]
    <3>1. Bounded(q, version) /\ ~WillRevoke(q)  BY <1>4, <2>3
    <3> HIDE DEF q
    <3> QED  BY <1>2, <1>3, <2>1, <2>2, <2>4, <3>1 DEF q
  <2> QED  BY <1>2, <1>3, <2>1, <2>2, <2>4
<1> QED  BY <1>9, <1>10, <1>11, <1>12, <1>13, <1>14 DEF Browser

(* Requests start, and sessions end elsewhere, while versions are left.    *)
LEMMA OtherVersions ==
  ASSUME SessionInv, VersionInv, IsFiniteSet(Lanes), SessionsAssumption,
         \/ \E l \in Lanes, op \in {"call", "login", "logout", "revoke"} : Start(l, op)
         \/ \E t \in Tabs : Open(t)
         \/ LoginElsewhere \/ RevokeElsewhere
  PROVE  VersionInv'
<1>0. /\ version \in Nat /\ MaxVersion \in Nat /\ token \in [Tabs -> Nat]
      /\ \A t \in Tabs : token[t] <= version
  BY DEF SessionInv, RowOK, BrowserOK, SessionsAssumption, VersionInv
<1>1. Cardinality(Revoking) <= Pending /\ Pending \in Nat /\ Cardinality(Revoking) \in Nat
      /\ IsFiniteSet(Revoking)
  <2> DEFINE P == {l \in Lanes : Busy(l) /\ lane[l].op = "revoke"}
  <2>1. Revoking \subseteq P /\ P \subseteq Lanes  BY DEF Revoking, WillRevoke, Busy
  <2>2. IsFiniteSet(P)  BY <2>1, FS_Subset
  <2>3. IsFiniteSet(Revoking) /\ Cardinality(Revoking) <= Cardinality(P)
    BY <2>1, <2>2, FS_Subset
  <2>4. Cardinality(P) \in Nat /\ Cardinality(Revoking) \in Nat
    BY <2>2, <2>3, FS_CardinalityType
  <2> QED  BY <2>3, <2>4 DEF Pending
<1>2. ASSUME NEW l \in Lanes, NEW op \in {"call", "login", "logout", "revoke"}, Start(l, op)
      PROVE  VersionInv'
  <2> DEFINE q == Fetch(op, TabOf[l], FALSE, FALSE)
  <2>1. TabOf[l] \in Tabs /\ op \in Ops  BY DEF SessionsAssumption, Ops
  <2>2. Bounded(q, version) /\ (op # "revoke" => ~WillRevoke(q))
    BY <1>0, <2>1, FetchBounded
  <2>3. /\ Put(l, q) /\ UNCHANGED <<serverVars, browserVars>>
        /\ op = "revoke" => version + Pending < MaxVersion
    BY <1>2 DEF Start
  <2> HIDE DEF q
  <2>4. op = "revoke" => version + Cardinality(Revoking) < MaxVersion
    BY <1>0, <1>1, <2>3
  <2>5. /\ version' = version /\ refresh' \in BOOLEAN /\ hint' \in BOOLEAN
        /\ page' \in [Tabs -> {"loading", "in", "out"}] /\ \A t \in Tabs : token'[t] <= version
    BY <1>0, <2>3 DEF serverVars, browserVars, tabVars, VersionInv
  <2> QED  BY <1>0, <2>2, <2>3, <2>4, <2>5, LaneMoves
<1>3. ASSUME NEW t \in Tabs, Open(t)
      PROVE  VersionInv'
  <2>1. PICK l \in Of(t) :
          /\ \/ Put(l, Fetch("boot", t, FALSE, FALSE))
             \/ Put(l, Fetch("renew", t, FALSE, FALSE))
             \/ UNCHANGED lane
          /\ \E p \in {"loading", "out"} : page' = [page EXCEPT ![t] = p]
    BY <1>3 DEF Open
  <2>2. /\ version' = version /\ refresh' = refresh /\ hint' = hint /\ token' = token
        /\ refresh' \in BOOLEAN /\ hint' \in BOOLEAN
        /\ page' \in [Tabs -> {"loading", "in", "out"}] /\ l \in Lanes
    BY <1>3, <2>1 DEF Open, serverVars, VersionInv, Of
  <2>3. ASSUME NEW op \in {"boot", "renew"}, Put(l, Fetch(op, t, FALSE, FALSE))
        PROVE  VersionInv'
    <3> DEFINE q == Fetch(op, t, FALSE, FALSE)
    <3>1. Bounded(q, version) /\ ~WillRevoke(q)
      BY <1>0, FetchBounded DEF Ops
    <3> HIDE DEF q
    <3>2. Put(l, q)  BY <2>3 DEF q
    <3> QED  BY <1>0, <2>2, <3>1, <3>2, LaneMoves
  <2>4. CASE UNCHANGED lane
    BY <1>0, <2>2, <2>4 DEF VersionInv, Revoking
  <2> QED  BY <2>1, <2>3, <2>4
<1>4. CASE LoginElsewhere \/ RevokeElsewhere
  <2>1. lane' = [k \in Lanes |-> Outdated(lane[k])] /\ UNCHANGED tabVars
    BY <1>4 DEF LoginElsewhere, RevokeElsewhere, OutdateAll
  <2>2. /\ version' \in {version, version + 1} /\ version' + Cardinality(Revoking) <= MaxVersion
        /\ refresh' \in BOOLEAN
    <3>1. CASE LoginElsewhere  BY <3>1 DEF LoginElsewhere, VersionInv
    <3>2. CASE RevokeElsewhere
      <4>1. version + Pending < MaxVersion /\ version' = version + 1 /\ refresh' = FALSE
        BY <3>2 DEF RevokeElsewhere, RevokeAll
      <4>2. \A v, m, p, c \in Nat : v + p < m /\ c <= p => (v + 1) + c <= m
        OBVIOUS
      <4> QED  BY <1>0, <1>1, <4>1, <4>2
    <3> QED  BY <1>4, <3>1, <3>2
  <2>3. ASSUME NEW k \in Lanes
        PROVE  Bounded(lane'[k], version') /\ (WillRevoke(lane'[k]) => WillRevoke(lane[k]))
    <3>1. lane[k] \in {Idle} \cup AnyRequest /\ Bounded(lane[k], version)
      BY DEF SessionInv, LanesOK, LaneOK, VersionInv
    <3>2. Bounded(lane[k], version')
      <4>1. lane[k] # Idle => /\ lane[k].token \in Nat /\ lane[k].seen \in Nat
                              /\ lane[k].base \in Nat /\ lane[k].fresh \in Nat
        BY <3>1 DEF AnyRequest
      <4> QED  BY <1>0, <2>2, <3>1, <4>1 DEF Bounded
    <3> QED  BY <1>0, <2>1, <2>2, <3>1, <3>2, OutdatedBounded
  <2>4. Revoking' \subseteq Revoking  BY <2>3 DEF Revoking
  <2>5. Cardinality(Revoking') <= Cardinality(Revoking) /\ Cardinality(Revoking') \in Nat
    BY <1>1, <2>4, FS_Subset, FS_CardinalityType
  <2>6. version' >= 1 /\ version' + Cardinality(Revoking') <= MaxVersion
    BY <1>0, <1>1, <2>2, <2>5 DEF VersionInv
  <2>7. /\ hint' \in BOOLEAN /\ page' \in [Tabs -> {"loading", "in", "out"}]
        /\ \A t \in Tabs : token'[t] <= version'
    BY <1>0, <2>1, <2>2 DEF tabVars, VersionInv
  <2> QED  BY <2>2, <2>3, <2>6, <2>7 DEF VersionInv
<1> QED  BY <1>2, <1>3, <1>4

(* TypeOK for any number of tabs and of requests: however a revocation is  *)
(* repeated, lost or overtaken, it takes one version, so that none exceeds *)
(* the bound of those that were allowed to start.                          *)
THEOREM SessionTypesHold ==
  ASSUME IsFiniteSet(Lanes)
  PROVE  Spec => []TypeOK
<1>1. Init => VersionInv
  <2> SUFFICES ASSUME Init PROVE VersionInv
    OBVIOUS
  <2>1. Revoking = {}  BY DEF Init, Revoking, WillRevoke
  <2>2. Cardinality(Revoking) = 0  BY <2>1, FS_EmptySet
  <2>3. MaxVersion \in Nat /\ MaxVersion >= 1  BY SessionsAssumption
  <2>4. /\ version = 1 /\ refresh \in BOOLEAN /\ hint \in BOOLEAN
        /\ page \in [Tabs -> {"loading", "in", "out"}]
        /\ \A t \in Tabs : token[t] <= version
        /\ \A l \in Lanes : Bounded(lane[l], version)
    <3>1. version = 1 /\ \A t \in Tabs : token[t] = 0  BY DEF Init, NoToken
    <3>2. \A l \in Lanes : lane[l] = Idle  BY DEF Init
    <3>3. \A l \in Lanes : Bounded(lane[l], version)  BY <3>2 DEF Bounded
    <3>4. /\ refresh \in BOOLEAN /\ hint \in BOOLEAN
          /\ page \in [Tabs -> {"loading", "in", "out"}]
      BY DEF Init
    <3> QED  BY <3>1, <3>3, <3>4
  <2> QED  BY <2>2, <2>3, <2>4 DEF VersionInv
<1>2. SessionInv /\ VersionInv /\ [Next]_vars => VersionInv'
  <2> SUFFICES ASSUME SessionInv, VersionInv, [Next]_vars  PROVE VersionInv'
    OBVIOUS
  <2>1. CASE UNCHANGED vars  BY <2>1 DEF vars, VersionInv, Revoking
  <2>2. CASE Next
    BY <2>2, ServerVersions, BrowserVersions, OtherVersions, SessionsAssumption DEF Next
  <2> QED  BY <2>1, <2>2
<1>3. SessionInv /\ VersionInv => TypeOK
  <2> SUFFICES ASSUME SessionInv, VersionInv  PROVE TypeOK
    OBVIOUS
  <2>1. version \in Versions
    <3>1. Revoking \subseteq Lanes  BY DEF Revoking
    <3>2. Cardinality(Revoking) \in Nat  BY <3>1, FS_Subset, FS_CardinalityType
    <3> QED  BY <3>2, SessionsAssumption DEF SessionInv, RowOK, VersionInv, Versions
  <2>2. \A n \in Nat : n <= version => n \in {0} \cup Versions
    BY <2>1, SessionsAssumption DEF Versions
  <2>3. token \in [Tabs -> {NoToken} \cup Versions]
    <3>1. \A t \in Tabs : token[t] \in {NoToken} \cup Versions
      BY <2>2 DEF SessionInv, BrowserOK, VersionInv, NoToken
    <3> QED  BY <3>1 DEF SessionInv, BrowserOK
  <2>4. ASSUME NEW l \in Lanes  PROVE lane[l] \in {Idle} \cup Request
    <3>1. lane[l] \in {Idle} \cup AnyRequest /\ Bounded(lane[l], version)
      BY DEF SessionInv, LanesOK, LaneOK, VersionInv
    <3>2. CASE lane[l] # Idle
      <4>1. lane[l] \in AnyRequest  BY <3>1, <3>2
      <4>2. /\ lane[l].token \in {NoToken} \cup Versions /\ lane[l].seen \in {0} \cup Versions
            /\ lane[l].base \in {0} \cup Versions /\ lane[l].fresh \in {NoToken} \cup Versions
        BY <2>2, <3>1, <3>2, <4>1 DEF Bounded, AnyRequest, NoToken
      <4> QED  BY <4>1, <4>2 DEF AnyRequest, Request, Ops
    <3> QED  BY <3>2
  <2>5. lane \in [Lanes -> {Idle} \cup Request]  BY <2>4 DEF SessionInv, LanesOK
  <2> QED
    BY <2>1, <2>3, <2>5 DEF SessionInv, RowOK, BrowserOK, VersionInv, TypeOK
<1> QED  BY <1>1, <1>2, <1>3, SessionInit, SessionNext, PTL DEF Spec
=============================================================================

---------------------------- MODULE Season_proofs ----------------------------
(***************************************************************************)
(* Theorems about a season, for any number of users, requests, imports,    *)
(* bets and settlements.  The four parts share no variables, so each       *)
(* theorem is about the steps of its own part.                             *)
(***************************************************************************)
EXTENDS Season, FiniteSetTheorems, TLAPS

(* A step of the season moves each part by its own step or not at all.     *)
LEMMA PartsMove ==
  ASSUME [Next]_seasonVars
  PROVE  /\ FeedNext \/ UNCHANGED feedVars
         /\ DeskNext \/ UNCHANGED deskVars
         /\ ScoresNext \/ UNCHANGED scoreVars
         /\ LeaguesNext \/ UNCHANGED leagueVars
BY DEF Next, seasonVars

-----------------------------------------------------------------------------
(* The league *)

Roles == {"NONE", "OWNER", "MEMBER"}
Ops == {"idle", "join", "leave", "transfer", "update", "delete"}

LeagueShape ==
  /\ league \in [status : {"NONE", "OPEN", "CLOSED", "DELETED"}, owner : Members \cup {NoMember}]
  /\ holder \in Requests \cup {NoMember}
  /\ membership \in [Members -> [role : Roles, active : BOOLEAN, since : Nat]]
  /\ earned \in [Members -> Nat]
  /\ request \in [Requests -> [op : Ops, user : Members \cup {NoMember},
                               target : Members \cup {NoMember}]]
  /\ \A q \in Requests :
       /\ request[q].op \in {"join", "leave", "transfer"} => request[q].user \in Members
       /\ request[q].op = "transfer" => request[q].target \in Members

\* Who joins or transfers holds the lock, and what it has read still holds.
LockInv ==
  /\ holder # NoMember => league.status # "NONE"
  /\ \A q \in Requests :
       /\ request[q].op \in {"join", "transfer"} => holder = q
       /\ Is(q, "transfer") => league.owner = request[q].user
       /\ Is(q, "join") => Cardinality(Active) < MaxMembers

MembersInv ==
  /\ OneOwner
  /\ league.status = "NONE" => Active = {} /\ league.owner = NoMember
  /\ NeverOverfull

LeagueInv == LeagueShape /\ LockInv /\ MembersInv

(* The members are finitely many, and so are any of them.                  *)
LEMMA SomeMembers ==
  ASSUME NEW S, S \subseteq Members
  PROVE  /\ IsFiniteSet(S) /\ Cardinality(S) \in Nat
         /\ \A T \in SUBSET S : Cardinality(T) <= Cardinality(S)
         /\ \A u \in Members : Cardinality(S \cup {u}) <= Cardinality(S) + 1
<1>1. IsFiniteSet(S)  BY FS_Subset, LeaguesAssumption DEF LeaguesAssumption
<1>2. Cardinality(S) \in Nat  BY <1>1, FS_CardinalityType
<1>3. ASSUME NEW T \in SUBSET S  PROVE Cardinality(T) <= Cardinality(S)
  BY <1>1, FS_Subset
<1>4. ASSUME NEW u \in Members  PROVE Cardinality(S \cup {u}) <= Cardinality(S) + 1
  BY <1>1, <1>2, FS_AddElement
<1> QED  BY <1>1, <1>2, <1>3, <1>4

(* A transfer changes two roles and nothing else.                          *)
LEMMA TransferredRoles ==
  ASSUME NEW u \in Members, NEW v \in Members,
         NEW m \in [Members -> [role : Roles, active : BOOLEAN, since : Nat]],
         NEW n, n = [m EXCEPT ![v].role = "OWNER", ![u].role = "MEMBER"]
  PROVE  /\ n \in [Members -> [role : Roles, active : BOOLEAN, since : Nat]]
         /\ \A w \in Members :
              /\ n[w].active = m[w].active
              /\ n[w].role = "OWNER" => w = v \/ (w # u /\ m[w].role = "OWNER")
<1> DEFINE k == [m EXCEPT ![v].role = "OWNER"]
<1>1. n = [k EXCEPT ![u].role = "MEMBER"]  OBVIOUS
<1>2. /\ k \in [Members -> [role : Roles, active : BOOLEAN, since : Nat]]
      /\ \A w \in Members : /\ k[w].active = m[w].active
                            /\ k[w].role = "OWNER" => w = v \/ m[w].role = "OWNER"
  BY DEF Roles
<1> HIDE DEF k
<1> QED  BY <1>1, <1>2 DEF Roles

(* The rows keep their shape, and only existing users ask.                 *)
LEMMA LeagueShapeStep ==
  ASSUME LeagueShape, LeaguesNext
  PROVE  LeagueShape'
<1> USE DEF LeagueShape, Quiet, Answer, Accept, Is, OnlyCounts, Roles, Ops
<1>0. LeaguesAssumption  BY LeaguesAssumption
<1>1. ASSUME NEW u \in Members, Create(u)  PROVE LeagueShape'
  BY <1>1 DEF Create
<1>2. ASSUME NEW u \in Members, Earn(u)  PROVE LeagueShape'
  BY <1>2 DEF Earn
<1>3. ASSUME NEW u \in Members, NEW v \in Members, Kick(u, v)  PROVE LeagueShape'
  BY <1>3 DEF Kick
<1>4. ASSUME NEW q \in Requests, NEW u \in Members, JoinCheck(q, u) \/ LeaveCheck(q, u)
      PROVE  LeagueShape'
  BY <1>4 DEF JoinCheck, LeaveCheck
<1>5. ASSUME NEW q \in Requests, NEW u \in Members, NEW op \in {"update", "delete"},
             OwnerCheck(q, op, u)
      PROVE  LeagueShape'
  BY <1>5 DEF OwnerCheck
<1>6. ASSUME NEW q \in Requests, NEW u \in Members, NEW v \in Members, TransferCheck(q, u, v)
      PROVE  LeagueShape'
  BY <1>6 DEF TransferCheck
<1>7. ASSUME NEW q \in Requests, JoinWrite(q)  PROVE LeagueShape'
  BY <1>7 DEF JoinWrite, NoRequest
<1>8. ASSUME NEW q \in Requests, LeaveWrite(q)  PROVE LeagueShape'
  BY <1>8 DEF LeaveWrite, NoRequest
<1>9. ASSUME NEW q \in Requests, TransferWrite(q)  PROVE LeagueShape'
  <2>1. request[q].user \in Members /\ request[q].target \in Members
    BY <1>9 DEF TransferWrite
  <2>2. membership' \in [Members -> [role : Roles, active : BOOLEAN, since : Nat]]
    BY <2>1, <1>9, TransferredRoles DEF TransferWrite
  <2>3. league' \in [status : {"NONE", "OPEN", "CLOSED", "DELETED"},
                     owner : Members \cup {NoMember}]
    BY <2>1, <1>9 DEF TransferWrite
  <2> QED  BY <2>2, <2>3, <1>9 DEF TransferWrite, NoRequest
<1>10. ASSUME NEW q \in Requests, UpdateWrite(q)  PROVE LeagueShape'
  BY <1>10 DEF UpdateWrite, NoRequest
<1>11. ASSUME NEW q \in Requests, DeleteWrite(q)  PROVE LeagueShape'
  BY <1>11 DEF DeleteWrite, NoRequest
<1>12. ASSUME NEW q \in Requests, Drop(q)  PROVE LeagueShape'
  BY <1>12 DEF Drop, NoRequest
<1>13. ASSUME NEW c \in Counts,
              \/ ReadMembers(c) \/ DeleteOthers(c) \/ ReadAllTime(c)
              \/ WriteStandings(c) \/ DeleteAll(c) \/ CountFails(c)
       PROVE  LeagueShape'
  BY <1>13 DEF ReadMembers, DeleteOthers, ReadAllTime, WriteStandings, DeleteAll, CountFails
<1> QED
  BY <1>1, <1>2, <1>3, <1>4, <1>5, <1>6, <1>7, <1>8, <1>9, <1>10, <1>11, <1>12, <1>13
  DEF LeaguesNext

(* Whoever joins has counted under the lock of the league, and whoever     *)
(* transfers has found the owner under it: nobody who needs the lock, or   *)
(* changes the owner, comes between (leagues.ts:262-312, 389-420).         *)
LEMMA LeagueInvStep ==
  ASSUME LeagueInv, LeaguesNext
  PROVE  LockInv' /\ MembersInv'
<1> USE DEF LeagueInv, Quiet, OnlyCounts, Unlocked
<1>0. /\ MaxMembers \in Nat \ {0} /\ NoMember \notin Members /\ NoMember \notin Requests
      /\ LeagueShape /\ LeagueShape'
      /\ Active \subseteq Members /\ Active' \subseteq Members
  BY LeaguesAssumption, LeagueShapeStep DEF LeaguesAssumption, Active
<1>a. ASSUME Active' \subseteq Active  PROVE Cardinality(Active)' <= Cardinality(Active)
  BY <1>0, <1>a, SomeMembers
<1>b. Cardinality(Active) \in Nat /\ Cardinality(Active)' \in Nat  BY <1>0, SomeMembers
<1>1. ASSUME NEW u \in Members, Create(u)  PROVE LockInv' /\ MembersInv'
  <2>1. Active' \subseteq {} \cup {u}  BY <1>1, <1>0 DEF Create, Active, LeagueShape, MembersInv
  <2>2. Cardinality(Active)' <= 1
    <3>1. Cardinality({} \cup {u}) <= 1  BY SomeMembers, FS_EmptySet
    <3>2. Cardinality(Active') <= Cardinality({} \cup {u})  BY <2>1, <1>0, SomeMembers
    <3> QED  BY <3>1, <3>2, <1>b, SomeMembers
  <2>3. MembersInv'
    <3>1. \A w \in Members : w # u => membership'[w] = membership[w]
      BY <1>0, <1>1 DEF Create, LeagueShape
    <3>2. \A w \in Members : membership[w].role # "OWNER"
      BY <1>0, <1>1 DEF Create, MembersInv, OneOwner
    <3>3. league'.owner = u /\ league'.status = "OPEN"  BY <1>1 DEF Create
    <3>4. OneOwner'  BY <3>1, <3>2, <3>3 DEF OneOwner
    <3>5. NeverOverfull'  BY <2>2, <1>0, <1>b DEF NeverOverfull
    <3> QED  BY <3>3, <3>4, <3>5 DEF MembersInv
  <2>4. LockInv'  BY <1>0, <1>1 DEF Create, LockInv, Is
  <2> QED  BY <2>3, <2>4
<1>2. ASSUME UNCHANGED <<league, membership>>  PROVE MembersInv' /\ Active' = Active
  BY <1>2 DEF MembersInv, OneOwner, NeverOverfull, Active
<1>3. ASSUME UNCHANGED <<league, membership, holder, request>>  PROVE LockInv' /\ MembersInv'
  BY <1>2, <1>3 DEF LockInv, Is
<1>4. ASSUME NEW u \in Members, NEW v \in Members, Kick(u, v)  PROVE LockInv' /\ MembersInv'
  <2>1. Active' \subseteq Active  BY <1>4, <1>0 DEF Kick, Active, LeagueShape
  <2>2. Cardinality(Active)' <= Cardinality(Active)  BY <2>1, <1>a
  <2>3. holder = NoMember /\ UNCHANGED <<holder, league, request>>  BY <1>4 DEF Kick
  <2>4. LockInv'  BY <2>3, <1>0 DEF LockInv, Is
  <2>5. \A w \in Members : membership'[w].role = membership[w].role
    BY <1>4, <1>0 DEF Kick, LeagueShape
  <2>6. MembersInv'
    BY <2>1, <2>2, <2>3, <2>5, <1>b, <1>0 DEF MembersInv, OneOwner, NeverOverfull
  <2> QED  BY <2>4, <2>6
<1>5. ASSUME NEW q \in Requests, NEW u \in Members, JoinCheck(q, u)
      PROVE  LockInv' /\ MembersInv'
  <2>1. UNCHANGED <<league, membership>>  BY <1>5 DEF JoinCheck
  <2>2. \A p \in Requests \ {q} : /\ request'[p] = request[p]
                               /\ request[p].op \notin {"join", "transfer"}
    BY <1>5, <1>0 DEF JoinCheck, MayJoin, Accept, LockInv, LeagueShape
  <2>3. request'[q].op = "join" /\ holder' = q /\ league.status # "NONE"
        /\ Cardinality(Active) < MaxMembers
    BY <1>5, <1>0 DEF JoinCheck, MayJoin, Accept, LeagueShape
  <2>4. LockInv'  BY <2>1, <2>2, <2>3, <1>2 DEF LockInv, Is
  <2> QED  BY <2>1, <2>4, <1>2
<1>6. ASSUME NEW q \in Requests, NEW u, NEW op \in {"leave", "update", "delete"},
             Accept(q, op, u, NoMember), UNCHANGED <<league, holder, membership>>
      PROVE  LockInv' /\ MembersInv'
  <2>1. \A p \in Requests : request'[p].op \in {"join", "transfer"} => request'[p] = request[p]
    BY <1>6, <1>0 DEF Accept, LeagueShape
  <2>2. LockInv'  BY <2>1, <1>2, <1>6 DEF LockInv, Is
  <2> QED  BY <2>2, <1>2, <1>6
<1>7. ASSUME NEW q \in Requests, NEW u \in Members, NEW v \in Members, TransferCheck(q, u, v)
      PROVE  LockInv' /\ MembersInv'
  <2>1. UNCHANGED <<league, membership>>  BY <1>7 DEF TransferCheck
  <2>2. \A p \in Requests \ {q} : /\ request'[p] = request[p]
                               /\ request[p].op \notin {"join", "transfer"}
    BY <1>7, <1>0 DEF TransferCheck, MayTransfer, Accept, LockInv, LeagueShape
  <2>3. /\ request'[q].op = "transfer" /\ request'[q].user = league.owner /\ holder' = q
        /\ league.status # "NONE"
    BY <1>7, <1>0 DEF TransferCheck, MayTransfer, Exists, Accept, LeagueShape
  <2>4. LockInv'  BY <2>1, <2>2, <2>3 DEF LockInv, Is
  <2> QED  BY <2>1, <2>4, <1>2
<1>8. ASSUME NEW q \in Requests, Answer(q)
      PROVE  \A p \in Requests :
               \/ p = q /\ request'[p].op = "idle"
               \/ p # q /\ request'[p] = request[p]
  BY <1>8, <1>0 DEF Answer, NoRequest, LeagueShape
<1>9. ASSUME NEW q \in Requests, JoinWrite(q)  PROVE LockInv' /\ MembersInv'
  <2> DEFINE u == request[q].user
  <2>1. u \in Members /\ holder = q /\ Cardinality(Active) < MaxMembers
    BY <1>9, <1>0 DEF JoinWrite, Is, LeagueShape, LockInv
  <2>2. membership' = [membership EXCEPT ![u] = [role |-> "MEMBER", active |-> TRUE,
                                                 since |-> earned[u]]]
    BY <1>9 DEF JoinWrite
  <2> HIDE DEF u
  <2>3. Active' = Active \cup {u}  BY <2>1, <2>2, <1>0 DEF Active, LeagueShape
  <2>4. Cardinality(Active)' <= MaxMembers
    BY <2>1, <2>3, <1>0, <1>b, SomeMembers
  <2>5. \A w \in Members : membership'[w].role = "OWNER" => membership[w].role = "OWNER"
    BY <2>1, <2>2, <1>0 DEF LeagueShape
  <2>6. UNCHANGED league /\ league.status # "NONE"
    BY <2>1, <1>0, <1>9 DEF JoinWrite, LockInv
  <2>7. MembersInv'  BY <2>4, <2>5, <2>6 DEF MembersInv, OneOwner, NeverOverfull
  <2>8. \A p \in Requests : request'[p].op \notin {"join", "transfer"}
    BY <2>1, <1>8, <1>9 DEF JoinWrite, LockInv
  <2>9. LockInv'  BY <2>6, <2>8 DEF LockInv, Is
  <2> QED  BY <2>7, <2>9
<1>10. ASSUME NEW q \in Requests, LeaveWrite(q)  PROVE LockInv' /\ MembersInv'
  <2>1. Active' \subseteq Active /\ \A w \in Members : membership'[w].role = membership[w].role
    BY <1>10, <1>0 DEF LeaveWrite, Is, Active, LeagueShape
  <2>2. Cardinality(Active)' <= Cardinality(Active)  BY <2>1, <1>a
  <2>3. UNCHANGED <<league, holder>>  BY <1>10 DEF LeaveWrite
  <2>4. MembersInv'
    BY <2>1, <2>2, <2>3, <1>0, <1>b DEF MembersInv, OneOwner, NeverOverfull
  <2>5. \A p \in Requests : request'[p].op \in {"join", "transfer"} => request'[p] = request[p]
    BY <1>8, <1>10 DEF LeaveWrite
  <2>6. LockInv'  BY <2>2, <2>3, <2>5, <1>0, <1>b DEF LockInv, Is
  <2> QED  BY <2>4, <2>6
<1>11. ASSUME NEW q \in Requests, TransferWrite(q)  PROVE LockInv' /\ MembersInv'
  <2> DEFINE u == request[q].user
             v == request[q].target
  <2>1. u \in Members /\ v \in Members /\ holder = q /\ league.owner = u
    BY <1>11, <1>0 DEF TransferWrite, Is, LeagueShape, LockInv
  <2>2. /\ membership' = [membership EXCEPT ![v].role = "OWNER", ![u].role = "MEMBER"]
        /\ league' = [league EXCEPT !.owner = v]
    BY <1>11 DEF TransferWrite
  <2> HIDE DEF u, v
  <2>a. membership \in [Members -> [role : Roles, active : BOOLEAN, since : Nat]]
    BY <1>0 DEF LeagueShape
  <2>b. \A w \in Members : membership'[w].active = membership[w].active
    BY <2>1, <2>2, <2>a, TransferredRoles
  <2>3. Active' = Active  BY <2>b DEF Active
  <2>4. league'.owner = v /\ league'.status = league.status  BY <2>2, <1>0 DEF LeagueShape
  <2>5. \A w \in Members : membership'[w].role = "OWNER" =>
          w = v \/ (w # u /\ membership[w].role = "OWNER")
    BY <2>1, <2>2, <2>a, TransferredRoles
  <2>c. league.status # "NONE"  BY <2>1, <1>0 DEF LockInv
  <2>6. MembersInv'
    BY <2>1, <2>3, <2>4, <2>5, <2>c DEF MembersInv, OneOwner, NeverOverfull
  <2>7. \A p \in Requests : request'[p].op \notin {"join", "transfer"}
    BY <2>1, <1>8, <1>11 DEF TransferWrite, LockInv
  <2>8. holder' = NoMember  BY <1>11 DEF TransferWrite
  <2>9. LockInv'  BY <2>7, <2>8 DEF LockInv, Is
  <2> QED  BY <2>6, <2>9
<1>12. ASSUME NEW q \in Requests, UpdateWrite(q)  PROVE LockInv' /\ MembersInv'
  <2>1. /\ holder = NoMember /\ UNCHANGED <<holder, membership>>
        /\ league'.owner = league.owner
        /\ league'.status = "NONE" => league.status = "NONE"
    BY <1>12, <1>0 DEF UpdateWrite, Exists, LeagueShape
  <2>2. \A p \in Requests : request'[p].op \notin {"join", "transfer"}
    BY <2>1, <1>0, <1>8, <1>12 DEF UpdateWrite, LockInv
  <2>3. LockInv'  BY <2>1, <2>2 DEF LockInv, Is
  <2>4. MembersInv'  BY <2>1 DEF MembersInv, OneOwner, NeverOverfull, Active
  <2> QED  BY <2>3, <2>4
<1>13. ASSUME NEW q \in Requests, DeleteWrite(q)  PROVE LockInv' /\ MembersInv'
  <2>1. /\ holder = NoMember /\ holder' = NoMember
        /\ league' = [status |-> "DELETED", owner |-> NoMember]
        /\ \A w \in Members : membership'[w].role = "NONE" /\ ~membership'[w].active
    BY <1>13 DEF DeleteWrite
  <2>2. Active' \subseteq Active  BY <2>1 DEF Active
  <2>3. \A p \in Requests : request'[p].op \notin {"join", "transfer"}
    BY <2>1, <1>0, <1>8, <1>13 DEF DeleteWrite, LockInv
  <2>4. LockInv'  BY <2>1, <2>3 DEF LockInv, Is
  <2>5. MembersInv'
    BY <2>1, <2>2, <1>a, <1>b, <1>0 DEF MembersInv, OneOwner, NeverOverfull
  <2> QED  BY <2>4, <2>5
<1>14. ASSUME NEW q \in Requests, Drop(q)  PROVE LockInv' /\ MembersInv'
  <2>1. UNCHANGED <<league, membership>> /\ holder' = IF holder = q THEN NoMember ELSE holder
    BY <1>14 DEF Drop
  <2>2. \A p \in Requests : request'[p].op \in {"join", "transfer"} =>
          p # q /\ request'[p] = request[p]
    BY <1>8, <1>14 DEF Drop
  <2>3. LockInv'  BY <2>1, <2>2, <1>2 DEF LockInv, Is
  <2> QED  BY <2>1, <2>3, <1>2
<1>15. ASSUME NEW c \in Counts,
              \/ ReadMembers(c) \/ DeleteOthers(c) \/ ReadAllTime(c)
              \/ WriteStandings(c) \/ DeleteAll(c) \/ CountFails(c)
       PROVE  LockInv' /\ MembersInv'
  BY <1>3, <1>15
  DEF ReadMembers, DeleteOthers, ReadAllTime, WriteStandings, DeleteAll, CountFails
<1>16. ASSUME NEW u \in Members, Earn(u)  PROVE LockInv' /\ MembersInv'
  BY <1>3, <1>16 DEF Earn
<1>17. ASSUME NEW q \in Requests, NEW u \in Members,
              LeaveCheck(q, u) \/ OwnerCheck(q, "update", u) \/ OwnerCheck(q, "delete", u)
       PROVE  LockInv' /\ MembersInv'
  BY <1>6, <1>17 DEF LeaveCheck, OwnerCheck
<1> QED
  BY <1>1, <1>4, <1>5, <1>7, <1>9, <1>10, <1>11, <1>12, <1>13, <1>14, <1>15, <1>16, <1>17
  DEF LeaguesNext

(* The invariant of the league is one of the whole season.                 *)
LEMMA LeagueAlways == Spec => []LeagueInv
<1>1. Init => LeagueInv
  <2> SUFFICES ASSUME Init  PROVE LeagueInv
    OBVIOUS
  <2> USE DEF Init, LeaguesInit
  <2>1. LeagueShape  BY DEF LeagueShape, NoRequest, Roles, Ops
  <2>2. LockInv  BY DEF LockInv, NoRequest, Is
  <2>3. Active = {}  BY DEF Active
  <2>4. MembersInv
    BY <2>3, FS_EmptySet, LeaguesAssumption
    DEF MembersInv, OneOwner, NeverOverfull, LeaguesAssumption
  <2> QED  BY <2>1, <2>2, <2>4 DEF LeagueInv
<1>2. LeagueInv /\ [Next]_seasonVars => LeagueInv'
  <2> SUFFICES ASSUME LeagueInv, [Next]_seasonVars  PROVE LeagueInv'
    OBVIOUS
  <2>1. CASE LeaguesNext  BY <2>1, LeagueShapeStep, LeagueInvStep DEF LeagueInv
  <2>2. CASE UNCHANGED leagueVars
    BY <2>2
    DEF leagueVars, LeagueInv, LeagueShape, LockInv, MembersInv, OneOwner, NeverOverfull, Active, Is
  <2> QED  BY <2>1, <2>2, PartsMove
<1> QED  BY <1>1, <1>2, PTL DEF Spec

(* Nobody but the league's owner has the role of owner, for any number of  *)
(* members and of requests that cross (leagues.ts:389-420).                *)
THEOREM LeagueHasOneOwner == Spec => []OneOwner
<1>1. LeagueInv => OneOwner  BY DEF LeagueInv, MembersInv
<1> QED  BY <1>1, LeagueAlways, PTL

(* A league never has more members than it takes, whatever the limit and   *)
(* however many join at the same time (leagues.ts:262-312).                *)
THEOREM LeagueIsNeverOverfull == Spec => []NeverOverfull
<1>1. LeagueInv => NeverOverfull  BY DEF LeagueInv, MembersInv
<1> QED  BY <1>1, LeagueAlways, PTL

-----------------------------------------------------------------------------
(* The standings of the league *)

\* Those of rows who come before u: ORDER BY points DESC, "userId" ASC.
Before(points, rows, u) ==
  {v \in rows : points[v] > points[u] \/ (points[v] = points[u] /\ v < u)}

(* Of two members one comes before the other, and whoever comes before him *)
(* comes before both; so ranks count from 1 without a gap, and more points *)
(* are a better rank (leagueStandings.ts:132-153).                         *)
LEMMA RanksCount ==
  ASSUME NEW rows \in SUBSET Members, NEW points \in [Members -> Int]
  PROVE  /\ {Rank(points, rows, u) : u \in rows} = 1 .. Cardinality(rows)
         /\ \A u, v \in rows :
              points[u] > points[v] => Rank(points, rows, u) < Rank(points, rows, v)
<1> DEFINE B(u) == Before(points, rows, u)
           n == Cardinality(rows)
<1>1. IsFiniteSet(rows) /\ n \in Nat  BY SomeMembers
<1>2. Members \subseteq Nat  BY LeaguesAssumption DEF LeaguesAssumption
<1>3. \A u \in rows : Rank(points, rows, u) = 1 + Cardinality(B(u))
  BY DEF Rank, Before
<1>4. \A u \in rows : B(u) \subseteq rows \ {u}
  <2>1. \A u \in rows : points[u] \in Int /\ u \in Int  BY <1>2
  <2> QED  BY <2>1 DEF Before
<1>5. \A u \in rows : IsFiniteSet(B(u)) /\ Cardinality(B(u)) \in Nat
  BY <1>4, SomeMembers
<1>6. \A u, v \in rows : u # v => u \in B(v) \/ v \in B(u)
  <2>1. \A u \in rows : points[u] \in Int /\ u \in Int  BY <1>2
  <2> QED  BY <2>1 DEF Before
<1>7. ASSUME NEW u \in rows, NEW v \in rows, u \in B(v)
      PROVE  Cardinality(B(u)) < Cardinality(B(v))
  <2>1. \A w \in rows : points[w] \in Int /\ w \in Int  BY <1>2
  <2>2. B(u) \subseteq B(v)  BY <1>7, <2>1 DEF Before
  <2>3. u \notin B(u)  BY <1>4
  <2>4. B(u) # B(v)  BY <1>7, <2>3
  <2> HIDE DEF B
  <2>5. /\ Cardinality(B(u)) <= Cardinality(B(v))
        /\ Cardinality(B(v)) = Cardinality(B(u)) => B(v) = B(u)
    BY <1>5, <2>2, FS_Subset
  <2> QED  BY <1>5, <2>4, <2>5
<1>8. ASSUME NEW u \in rows  PROVE Cardinality(B(u)) < n
  <2>1. B(u) \subseteq rows /\ B(u) # rows  BY <1>4
  <2> HIDE DEF B
  <2>2. /\ Cardinality(B(u)) <= n
        /\ n = Cardinality(B(u)) => rows = B(u)
    BY <1>1, <2>1, FS_Subset
  <2> QED  BY <1>1, <1>5, <2>1, <2>2
<1>9. \A u, v \in rows : points[u] > points[v] => u \in B(v)  BY DEF Before
<1> HIDE DEF B
<1> DEFINE r == [u \in rows |-> 1 + Cardinality(B(u))]
<1>10. r \in Injection(rows, 1 .. n)
  <2>1. \A u \in rows : 1 + Cardinality(B(u)) \in 1 .. n  BY <1>1, <1>5, <1>8
  <2>2. r \in [rows -> 1 .. n]  BY <2>1
  <2>3. \A u, v \in rows : r[u] = r[v] => u = v  BY <1>5, <1>6, <1>7
  <2> QED  BY <2>2, <2>3 DEF Injection, IsInjective
<1>11. IsFiniteSet(1 .. n) /\ Cardinality(1 .. n) = n
  BY <1>1, FS_Interval
<1> HIDE DEF r, n
<1>12. r \in Surjection(rows, 1 .. n)
  BY <1>10, <1>11, FS_Injection DEF n
<1>13. \A i \in 1 .. n : \E u \in rows : r[u] = i  BY <1>12 DEF Surjection
<1>14. \A u \in rows : r[u] = Rank(points, rows, u) /\ r[u] \in 1 .. n
  BY <1>3, <1>10 DEF r, Injection
<1>15. {Rank(points, rows, u) : u \in rows} = 1 .. n  BY <1>13, <1>14
<1>16. \A u, v \in rows :
         points[u] > points[v] => Rank(points, rows, u) < Rank(points, rows, v)
  BY <1>3, <1>5, <1>7, <1>9
<1> QED  BY <1>15, <1>16 DEF n

StandingRecords == [there : BOOLEAN, week : Nat, all : Nat, weekRank : Nat, allRank : Nat]
CountRecords == [pc : {"idle", "members", "week", "all"}, of : SUBSET Members,
                 since : [Members -> Nat], week : [Members -> Nat], all : [Members -> Nat],
                 gone : SUBSET Members]

\* What a recalculation has read, when e is what each has earned: the results it counts came
\* after the joining, and those of the week before those of all time.
CountOK(k, e) ==
  /\ k \in CountRecords
  /\ k.pc \in {"idle", "members"} => k.gone = {}
  /\ \A u \in Members :
       /\ k.since[u] <= e[u]
       /\ k.pc = "week" => k.week[u] <= (IF u \in k.of THEN e[u] - k.since[u] ELSE 0)
       /\ k.pc = "all" => k.week[u] <= k.all[u]

\* While rows are deleted but not committed nobody else writes any, so they still are all the
\* rows of those who were no members.
GoneInv ==
  /\ \A c \in Counts : count[c].gone # {} => count[c].gone = Listed \ count[c].of
  /\ \A c, d \in Counts : c # d => count[c].gone \cap count[d].gone = {}

CountInv ==
  /\ \A u \in Members : membership[u].since <= earned[u]
  /\ count = [c \in Counts |-> count[c]]
  /\ \A c \in Counts : CountOK(count[c], earned)

StandingInv == /\ CountInv /\ GoneInv
               /\ standing \in [Members -> StandingRecords] /\ StandingsInOrder

(* Points only grow, and what a recalculation has read stays below them.   *)
LEMMA CountOutlivesPoints ==
  ASSUME NEW e \in [Members -> Nat], NEW g \in [Members -> Nat],
         \A u \in Members : e[u] <= g[u], NEW k, CountOK(k, e)
  PROVE  CountOK(k, g)
<1>1. \A u \in Members : k.since[u] \in Nat /\ k.week[u] \in Nat /\ e[u] \in Nat /\ g[u] \in Nat
  BY DEF CountOK, CountRecords
<1>2. \A u \in Members : k.since[u] <= g[u]  BY <1>1 DEF CountOK
<1>3. ASSUME NEW u \in Members, k.pc = "week"
      PROVE  k.week[u] <= (IF u \in k.of THEN g[u] - k.since[u] ELSE 0)
  BY <1>1, <1>3 DEF CountOK
<1> QED  BY <1>2, <1>3 DEF CountOK

(* A recalculation that is over has read nothing.                          *)
LEMMA NoCountOK == \A e \in [Members -> Nat] : CountOK(NoCount, e)
BY DEF CountOK, CountRecords, NoCount

(* What a step of a recalculation reads is in order, too                   *)
(* (leagueStandings.ts:45-132).                                            *)
LEMMA CountReads ==
  ASSUME LeagueShape, CountInv, NEW c \in Counts,
         ReadMembers(c) \/ DeleteOthers(c) \/ ReadAllTime(c)
  PROVE  /\ CountOK(count'[c], earned)
         /\ \A d \in Counts \ {c} : count'[d] = count[d]
         /\ count' = [d \in Counts |-> count'[d]]
         /\ UNCHANGED <<membership, earned, standing>>
<1> DEFINE k == count[c]
<1>1. CountOK(k, earned) /\ count = [d \in Counts |-> count[d]]  BY DEF CountInv
<1>2. \A u \in Members : earned[u] \in Nat /\ membership[u].since \in Nat
                         /\ membership[u].since <= earned[u]
  BY DEF LeagueShape, CountInv
<1>3. k \in CountRecords  BY <1>1 DEF CountOK
<1>4. \A u \in Members : /\ k.since[u] \in Nat /\ k.since[u] <= earned[u]
                         /\ earned[u] - k.since[u] \in Nat
  BY <1>1, <1>2, <1>3 DEF CountOK, CountRecords
<1>5. Active \subseteq Members /\ Listed \subseteq Members  BY DEF Active, Listed
<1>6. ASSUME ReadMembers(c)  PROVE CountOK(count'[c], earned)
  <2> DEFINE since == [u \in Members |-> IF u \in Active THEN membership[u].since ELSE 0]
  <2>1. since \in [Members -> Nat] /\ \A u \in Members : since[u] <= earned[u]  BY <1>2
  <2> HIDE DEF since
  <2>2. count'[c] = [k EXCEPT !.pc = "members", !.of = Active, !.since = since]
    BY <1>1, <1>6 DEF ReadMembers, since
  <2>3. k.gone = {}  BY <1>1, <1>6 DEF ReadMembers, CountOK
  <2> HIDE DEF k
  <2> QED  BY <1>3, <1>5, <2>1, <2>2, <2>3 DEF CountOK, CountRecords
<1>7. ASSUME DeleteOthers(c)  PROVE CountOK(count'[c], earned)
  <2> DEFINE week == [u \in Members |-> IF u \in k.of THEN earned[u] - k.since[u] ELSE 0]
  <2>1. /\ week \in [Members -> Nat]
        /\ \A u \in Members : week[u] <= (IF u \in k.of THEN earned[u] - k.since[u] ELSE 0)
    BY <1>4
  <2>2. count'[c] = [k EXCEPT !.pc = "week", !.gone = Listed \ k.of, !.week = week]
    BY <1>1, <1>7 DEF DeleteOthers
  <2> HIDE DEF week, k
  <2> QED  BY <1>1, <1>3, <1>5, <2>1, <2>2 DEF CountOK, CountRecords
<1>8. ASSUME ReadAllTime(c)  PROVE CountOK(count'[c], earned)
  <2> DEFINE all == [u \in Members |-> IF u \in k.of THEN earned[u] - k.since[u] ELSE 0]
  <2>1. /\ all \in [Members -> Nat]
        /\ \A u \in Members : all[u] = (IF u \in k.of THEN earned[u] - k.since[u] ELSE 0)
    BY <1>4
  <2>2. count'[c] = [k EXCEPT !.pc = "all", !.all = all]
    BY <1>1, <1>8 DEF ReadAllTime
  <2>3. \A u \in Members : k.week[u] <= all[u]
    BY <1>1, <1>8, <2>1 DEF ReadAllTime, CountOK
  <2> HIDE DEF all, k
  <2> QED  BY <1>1, <1>3, <2>1, <2>2, <2>3 DEF CountOK, CountRecords
<1>9. /\ \A d \in Counts \ {c} : count'[d] = count[d]
      /\ count' = [d \in Counts |-> count'[d]]
  BY <1>1 DEF ReadMembers, DeleteOthers, ReadAllTime
<1>10. UNCHANGED <<membership, earned, standing>>
  BY DEF ReadMembers, DeleteOthers, ReadAllTime, OnlyCounts
<1> QED  BY <1>6, <1>7, <1>8, <1>9, <1>10

(* Where no row is left the standings are in order.                        *)
LEMMA NobodyInOrder ==
  ASSUME Listed' = {}, \A u \in Members : standing'[u].week <= standing'[u].all
  PROVE  StandingsInOrder'
<1>1. Cardinality(Listed') = 0  BY FS_EmptySet
<1>2. 1 .. 0 = {}  OBVIOUS
<1> QED  BY <1>1, <1>2 DEF StandingsInOrder, InOrder

(* The table that a recalculation writes has the weeks and totals that it  *)
(* upserted, ranked among all the rows there are (leagueStandings.ts:132-  *)
(* 153, 194-199).                                                          *)
LEMMA WritingRanks ==
  ASSUME NEW c \in Counts, CountOK(count[c], earned), count[c].pc = "all",
         standing \in [Members -> StandingRecords],
         \A u \in Members : standing[u].week <= standing[u].all,
         standing' = Ranked(Upserted(c), count[c].of)
  PROVE  standing' \in [Members -> StandingRecords] /\ StandingsInOrder'
<1> DEFINE wrote == Upserted(c)
           week == [u \in Members |-> wrote[u].week]
           all == [u \in Members |-> wrote[u].all]
           rows == {u \in Members : wrote[u].there}
           k == count[c]
<1>1. /\ k \in CountRecords /\ \A u \in Members : k.week[u] <= k.all[u]
  BY DEF CountOK
<1>2. NoStanding \in StandingRecords  BY DEF NoStanding, StandingRecords
<1>3. \A u \in Members :
        /\ wrote[u] \in StandingRecords
        /\ wrote[u].week <= wrote[u].all
  <2>1. ASSUME NEW u \in Members  PROVE wrote[u] \in StandingRecords /\ wrote[u].week <= wrote[u].all
    <3>1. CASE u \in k.of
      <4>1. wrote[u] = [standing[u] EXCEPT !.there = TRUE, !.week = k.week[u], !.all = k.all[u]]
        BY <3>1 DEF Upserted
      <4>2. k.week[u] \in Nat /\ k.all[u] \in Nat /\ k.week[u] <= k.all[u]
        BY <1>1 DEF CountRecords
      <4>3. standing[u] \in StandingRecords  OBVIOUS
      <4> HIDE DEF wrote, k
      <4> QED  BY <4>1, <4>2, <4>3 DEF StandingRecords
    <3>2. CASE u \notin k.of
      <4>1. wrote[u] \in {NoStanding, standing[u]}  BY <3>2 DEF Upserted
      <4>2. NoStanding.week <= NoStanding.all  BY DEF NoStanding
      <4> HIDE DEF wrote
      <4> QED  BY <1>2, <4>1, <4>2
    <3> QED  BY <3>1, <3>2
  <2> QED  BY <2>1
<1> HIDE DEF wrote
<1>4. week \in [Members -> Int] /\ all \in [Members -> Int]  BY <1>3 DEF StandingRecords
<1>5. rows \subseteq Members  OBVIOUS
<1>6. \A u \in rows : Rank(week, rows, u) \in Nat /\ Rank(all, rows, u) \in Nat
  <2>1. \A p \in [Members -> Int], u \in rows : Rank(p, rows, u) \in Nat
    <3> SUFFICES ASSUME NEW p \in [Members -> Int], NEW u \in rows
                 PROVE  Rank(p, rows, u) \in Nat
      OBVIOUS
    <3> DEFINE S == {v \in rows : p[v] > p[u] \/ (p[v] = p[u] /\ v < u)}
    <3>1. S \subseteq Members  OBVIOUS
    <3>2. Cardinality(S) \in Nat  BY <3>1, SomeMembers
    <3>3. Rank(p, rows, u) = 1 + Cardinality(S)  BY DEF Rank
    <3> HIDE DEF S
    <3> QED  BY <3>2, <3>3
  <2> HIDE DEF rows
  <2> QED  BY <1>4, <2>1
<1>7. \A u \in Members :
        standing'[u] = IF u \in rows
                         THEN [wrote[u] EXCEPT !.weekRank = Rank(week, rows, u),
                                               !.allRank = Rank(all, rows, u)]
                         ELSE NoStanding
  BY DEF Ranked, wrote
<1>8. standing' = [u \in Members |-> standing'[u]]  BY DEF Ranked
<1>9. \A u \in rows : wrote[u].there  OBVIOUS
<1> HIDE DEF week, all, rows
<1>10. ASSUME NEW u \in rows
       PROVE  /\ standing'[u] \in StandingRecords
              /\ standing'[u].there /\ standing'[u].week = wrote[u].week
              /\ standing'[u].all = wrote[u].all
              /\ standing'[u].weekRank = Rank(week, rows, u)
              /\ standing'[u].allRank = Rank(all, rows, u)
  <2>1. wrote[u] \in StandingRecords /\ wrote[u].there  BY <1>3, <1>5, <1>9
  <2>2. PICK i \in Nat : i = Rank(week, rows, u)  BY <1>6
  <2>3. PICK j \in Nat : j = Rank(all, rows, u)  BY <1>6
  <2>4. standing'[u] = [wrote[u] EXCEPT !.weekRank = i, !.allRank = j]
    BY <1>5, <1>7, <2>2, <2>3
  <2> HIDE DEF wrote
  <2>5. /\ standing'[u] \in StandingRecords
        /\ standing'[u].there /\ standing'[u].week = wrote[u].week
        /\ standing'[u].all = wrote[u].all
        /\ standing'[u].weekRank = i /\ standing'[u].allRank = j
    BY <2>1, <2>4 DEF StandingRecords
  <2> QED  BY <2>2, <2>3, <2>5
<1>11. \A u \in Members \ rows : standing'[u] = NoStanding  BY <1>7
<1>12. standing' \in [Members -> StandingRecords]
  <2>1. \A u \in Members : standing'[u] \in StandingRecords  BY <1>2, <1>10, <1>11
  <2> QED  BY <1>8, <2>1
<1>13. Listed' = rows  BY <1>5, <1>10, <1>11 DEF Listed, NoStanding
<1>14. \A u \in rows : week[u] = wrote[u].week /\ all[u] = wrote[u].all
  BY <1>5 DEF week, all
<1> DEFINE weeks == [u \in Members |-> standing[u].week]
           weekRanks == [u \in Members |-> standing[u].weekRank]
           alls == [u \in Members |-> standing[u].all]
           allRanks == [u \in Members |-> standing[u].allRank]
<1>15. /\ weeks' \in [Members -> Int] /\ weekRanks' \in [Members -> Int]
       /\ alls' \in [Members -> Int] /\ allRanks' \in [Members -> Int]
  BY <1>12 DEF StandingRecords
<1>16. /\ \A u \in rows : weeks'[u] = week[u] /\ weekRanks'[u] = Rank(week, rows, u)
       /\ \A u \in rows : alls'[u] = all[u] /\ allRanks'[u] = Rank(all, rows, u)
  BY <1>5, <1>10, <1>14
<1>17. \A u \in Members : standing'[u].week <= standing'[u].all
  <2>1. \A u \in rows : standing'[u].week <= standing'[u].all  BY <1>3, <1>5, <1>10
  <2> QED  BY <2>1, <1>11 DEF NoStanding
<1>18. ASSUME NEW points \in [Members -> Int], NEW shown \in [Members -> Int],
              NEW rank \in [Members -> Int],
              \A u \in rows : shown[u] = points[u] /\ rank[u] = Rank(points, rows, u)
       PROVE  /\ {rank[u] : u \in rows} = 1 .. Cardinality(rows)
              /\ \A u, v \in rows : shown[u] > shown[v] => rank[u] < rank[v]
  <2>1. {rank[u] : u \in rows} = {Rank(points, rows, u) : u \in rows}  BY <1>18
  <2>2. {Rank(points, rows, u) : u \in rows} = 1 .. Cardinality(rows)  BY <1>5, RanksCount
  <2>3. \A u, v \in rows : points[u] > points[v] => Rank(points, rows, u) < Rank(points, rows, v)
    BY <1>5, RanksCount
  <2> QED  BY <1>18, <2>1, <2>2, <2>3
<1> HIDE DEF weeks, weekRanks, alls, allRanks
<1>19. /\ {weekRanks'[u] : u \in rows} = 1 .. Cardinality(rows)
       /\ \A u, v \in rows : weeks'[u] > weeks'[v] => weekRanks'[u] < weekRanks'[v]
  BY <1>4, <1>15, <1>16, <1>18
<1>20. /\ {allRanks'[u] : u \in rows} = 1 .. Cardinality(rows)
       /\ \A u, v \in rows : alls'[u] > alls'[v] => allRanks'[u] < allRanks'[v]
  BY <1>4, <1>15, <1>16, <1>18
<1>21. StandingsInOrder'
  BY <1>13, <1>17, <1>19, <1>20
  DEF StandingsInOrder, InOrder, weeks, weekRanks, alls, allRanks
<1> QED  BY <1>12, <1>21

(* Rows are written while nobody else has deleted any, or by the one who   *)
(* has deleted them all; so the standings of a league are in order after   *)
(* every step (leagueStandings.ts:45-199, leagues.ts:226-260).             *)
LEMMA StandingStep ==
  ASSUME LeagueShape, LeagueShape', StandingInv, LeaguesNext
  PROVE  StandingInv'
<1>0. /\ \A u \in Members : membership[u].since \in Nat /\ earned[u] \in Nat
      /\ earned \in [Members -> Nat] /\ earned' \in [Members -> Nat]
      /\ membership = [u \in Members |-> membership[u]]
  BY DEF LeagueShape
<1>1. CountInv /\ GoneInv /\ standing \in [Members -> StandingRecords] /\ StandingsInOrder
  BY DEF StandingInv
<1>2. \A c \in Counts : CountOK(count[c], earned) /\ count[c].gone \subseteq Members
  BY <1>1 DEF CountInv, CountOK, CountRecords
<1>3. count = [c \in Counts |-> count[c]]  BY <1>1 DEF CountInv
<1>4. NoStanding \in StandingRecords  BY DEF NoStanding, StandingRecords
<1>5. \A u \in Members : standing[u].week <= standing[u].all  BY <1>1 DEF StandingsInOrder
<1> DEFINE Still == UNCHANGED <<count, standing>>
           Grown == \A u \in Members : earned[u] <= earned'[u]
           Since == \A u \in Members : membership'[u].since <= earned'[u]
<1>6. ASSUME Still, Grown, Since  PROVE StandingInv'
  <2>1. \A c \in Counts : CountOK(count[c], earned')
    BY <1>0, <1>2, <1>6, CountOutlivesPoints
  <2>2. CountInv'  BY <1>3, <1>6, <2>1 DEF CountInv
  <2>3. UNCHANGED count /\ UNCHANGED standing  BY <1>6
  <2>4. Listed' = Listed  BY <2>3 DEF Listed
  <2>5. GoneInv'  BY <1>1, <2>3, <2>4 DEF GoneInv
  <2>6. StandingsInOrder'  BY <1>1, <2>3 DEF StandingsInOrder, InOrder, Listed
  <2> QED  BY <1>1, <2>2, <2>3, <2>5, <2>6 DEF StandingInv
<1> DEFINE Over(c) == count' = [count EXCEPT ![c] = NoCount] /\ UNCHANGED <<membership, earned>>
<1>7. ASSUME NEW c \in Counts, Over(c)
      PROVE  /\ CountInv'
             /\ \A d \in Counts : count'[d].gone = IF d = c THEN {} ELSE count[d].gone
             /\ \A d \in Counts \ {c} : count'[d] = count[d]
  <2>1. \A d \in Counts : count'[d] = IF d = c THEN NoCount ELSE count[d]  BY <1>3, <1>7
  <2>2. CountOK(NoCount, earned) /\ NoCount.gone = {}  BY <1>0, NoCountOK DEF NoCount
  <2>3. \A d \in Counts : CountOK(count'[d], earned')  BY <1>2, <1>7, <2>1, <2>2
  <2>4. CountInv'  BY <1>1, <1>3, <1>7, <2>3 DEF CountInv
  <2> QED  BY <2>1, <2>2, <2>4
<1> HIDE DEF Still, Grown, Since
<1>8. ASSUME NEW u \in Members,
             \/ Create(u)
             \/ \E v \in Members : Kick(v, u)
             \/ \E q \in Requests : \/ JoinWrite(q) \/ LeaveWrite(q) \/ TransferWrite(q)
                                    \/ UpdateWrite(q) \/ Drop(q)
                                    \/ JoinCheck(q, u) \/ LeaveCheck(q, u)
                                    \/ \E v \in Members : TransferCheck(q, u, v)
                                    \/ \E op \in {"update", "delete"} : OwnerCheck(q, op, u)
      PROVE  Still /\ UNCHANGED earned
  BY <1>8 DEF Create, Kick, JoinWrite, LeaveWrite, TransferWrite, UpdateWrite, Drop, JoinCheck,
              LeaveCheck, TransferCheck, OwnerCheck, Quiet, Still
<1>9. ASSUME UNCHANGED earned,
             \A u \in Members : membership'[u].since \in {membership[u].since, earned[u]}
      PROVE  Grown /\ Since
  BY <1>0, <1>1, <1>9 DEF CountInv, Grown, Since
<1> DEFINE Kept == \A u \in Members : membership'[u].since \in {membership[u].since, earned[u]}
<1> HIDE DEF Kept
<1>10. ASSUME NEW u \in Members, Create(u)  PROVE Kept
  BY <1>0, <1>10 DEF Create, Kept
<1>11. ASSUME NEW u \in Members, NEW v \in Members, Kick(v, u)  PROVE Kept
  BY <1>11, <1>0 DEF Kick, Kept, LeagueShape
<1>12. ASSUME NEW q \in Requests, JoinWrite(q)  PROVE Kept
  BY <1>12, <1>0 DEF JoinWrite, Kept
<1>13. ASSUME NEW q \in Requests, LeaveWrite(q)  PROVE Kept
  BY <1>13 DEF LeaveWrite, Kept, LeagueShape
<1>14. ASSUME NEW q \in Requests, TransferWrite(q)  PROVE Kept
  <2> DEFINE u == request[q].user
             v == request[q].target
             m == [membership EXCEPT ![v].role = "OWNER"]
  <2>1. \A w \in Members : m[w].since = membership[w].since
    BY DEF LeagueShape
  <2>2. m \in [Members -> [role : Roles, active : BOOLEAN, since : Nat]]
    BY DEF LeagueShape, Roles
  <2>3. membership' = [m EXCEPT ![u].role = "MEMBER"]
    BY <1>14 DEF TransferWrite
  <2> HIDE DEF m, u, v
  <2>4. \A w \in Members : membership'[w].since = m[w].since  BY <2>2, <2>3
  <2> QED  BY <2>1, <2>4 DEF Kept
<1>15. ASSUME UNCHANGED membership  PROVE Kept  BY <1>15 DEF Kept
<1>16. ASSUME NEW q \in Requests, NEW u \in Members,
              \/ UpdateWrite(q) \/ Drop(q) \/ JoinCheck(q, u) \/ LeaveCheck(q, u)
              \/ \E v \in Members : TransferCheck(q, u, v)
              \/ \E op \in {"update", "delete"} : OwnerCheck(q, op, u)
       PROVE  Kept
  BY <1>15, <1>16 DEF UpdateWrite, Drop, JoinCheck, LeaveCheck, TransferCheck, OwnerCheck
<1>17. ASSUME NEW u \in Members, Earn(u)  PROVE StandingInv'
  <2>1. Still /\ UNCHANGED membership  BY <1>17 DEF Earn, Still
  <2>2. Grown  BY <1>0, <1>17 DEF Earn, Grown
  <2>3. Since  BY <1>0, <1>1, <2>1, <2>2 DEF CountInv, Grown, Since
  <2> QED  BY <1>6, <2>1, <2>2, <2>3
<1>18. ASSUME NEW q \in Requests, DeleteWrite(q)  PROVE StandingInv'
  <2>1. /\ \A u \in Members : membership'[u].since = 0
        /\ standing' = [u \in Members |-> NoStanding]
        /\ UNCHANGED <<earned, count>>
        /\ \A c \in Counts : count[c].gone = {}
    BY <1>18 DEF DeleteWrite
  <2>2. CountInv'  BY <1>0, <1>1, <2>1 DEF CountInv
  <2>3. GoneInv'  BY <2>1 DEF GoneInv
  <2>4. Listed' = {} /\ \A u \in Members : standing'[u].week <= standing'[u].all
    BY <2>1 DEF Listed, NoStanding
  <2>5. StandingsInOrder'  BY <2>4, NobodyInOrder
  <2>6. standing' \in [Members -> StandingRecords]  BY <1>4, <2>1
  <2> QED  BY <2>2, <2>3, <2>5, <2>6 DEF StandingInv
<1>19. ASSUME NEW c \in Counts, ReadMembers(c) \/ DeleteOthers(c) \/ ReadAllTime(c)
       PROVE  StandingInv'
  <2>1. /\ CountOK(count'[c], earned)
        /\ \A d \in Counts \ {c} : count'[d] = count[d]
        /\ count' = [d \in Counts |-> count'[d]]
        /\ UNCHANGED <<membership, earned, standing>>
    BY <1>1, <1>19, CountReads
  <2>2. CountInv'  BY <1>1, <1>2, <2>1 DEF CountInv
  <2>3. StandingsInOrder' /\ Listed' = Listed
    BY <1>1, <2>1 DEF StandingsInOrder, InOrder, Listed
  <2>4. CASE ReadMembers(c) \/ ReadAllTime(c)
    <3>a. count[c] \in CountRecords  BY <1>2 DEF CountOK
    <3>b. ASSUME ReadMembers(c)  PROVE count'[c].gone = count[c].gone /\ count[c].gone = {}
      BY <1>2, <1>3, <3>a, <3>b DEF ReadMembers, CountOK, CountRecords
    <3>c. ASSUME ReadAllTime(c)
          PROVE  count'[c].gone = count[c].gone /\ count'[c].of = count[c].of
      BY <1>3, <3>a, <3>c DEF ReadAllTime, CountRecords
    <3>1. count'[c].gone = count[c].gone  BY <2>4, <3>b, <3>c
    <3>2. count[c].gone # {} => count'[c].of = count[c].of  BY <2>4, <3>b, <3>c
    <3>3. \A d \in Counts : count'[d].gone = count[d].gone  BY <2>1, <3>1
    <3>4. \A d \in Counts : count[d].gone # {} => count'[d].of = count[d].of  BY <2>1, <3>2
    <3>5. GoneInv'  BY <1>1, <2>3, <3>3, <3>4 DEF GoneInv
    <3> QED  BY <1>1, <2>1, <2>2, <2>3, <3>5 DEF StandingInv
  <2>5. CASE DeleteOthers(c)
    <3>1. /\ count'[c].gone = Listed \ count[c].of /\ count'[c].of = count[c].of
          /\ \A d \in Counts \ {c} : count[d].gone \cap (Listed \ count[c].of) = {}
      BY <1>3, <2>5 DEF DeleteOthers, RowsFree
    <3>2. \A d \in Counts : count'[d].gone # {} => count'[d].gone = Listed' \ count'[d].of
      BY <1>1, <2>1, <2>3, <3>1 DEF GoneInv
    <3>3. \A d, e \in Counts : d # e => count'[d].gone \cap count'[e].gone = {}
      BY <1>1, <2>1, <3>1 DEF GoneInv
    <3> QED  BY <1>1, <2>1, <2>2, <2>3, <3>2, <3>3 DEF StandingInv, GoneInv
  <2> QED  BY <1>19, <2>4, <2>5
<1>20. ASSUME NEW c \in Counts, WriteStandings(c)  PROVE StandingInv'
  <2>1. /\ Over(c) /\ count[c].pc = "all"
        /\ standing' = Ranked(Upserted(c), count[c].of)
        /\ \A d \in Counts \ {c} : count[d].gone \cap Members = {}
    BY <1>20 DEF WriteStandings, EndCount, OnlyCounts, RowsFree
  <2>a. \A d \in Counts \ {c} : count[d].gone = {}  BY <1>2, <2>1
  <2>b. /\ CountInv'
        /\ \A d \in Counts : count'[d].gone = IF d = c THEN {} ELSE count[d].gone
    BY <1>7, <2>1
  <2>2. CountInv' /\ \A d \in Counts : count'[d].gone = {}  BY <2>a, <2>b
  <2>3. GoneInv'  BY <2>2 DEF GoneInv
  <2>4. standing' \in [Members -> StandingRecords] /\ StandingsInOrder'
    BY <1>1, <1>2, <1>5, <2>1, WritingRanks
  <2> QED  BY <2>2, <2>3, <2>4 DEF StandingInv
<1>21. ASSUME NEW c \in Counts, Over(c), UNCHANGED standing  PROVE StandingInv'
  <2>1. /\ CountInv'
        /\ \A d \in Counts : count'[d].gone = IF d = c THEN {} ELSE count[d].gone
        /\ \A d \in Counts \ {c} : count'[d] = count[d]
    BY <1>7, <1>21
  <2>2. StandingsInOrder' /\ Listed' = Listed
    BY <1>1, <1>21 DEF StandingsInOrder, InOrder, Listed
  <2>3. GoneInv'  BY <1>1, <2>1, <2>2 DEF GoneInv
  <2> QED  BY <1>1, <1>21, <2>1, <2>2, <2>3 DEF StandingInv
<1>22. ASSUME NEW c \in Counts, DeleteAll(c)  PROVE StandingInv'
  <2>1. /\ Over(c) /\ count[c].of = {}
        /\ standing' = [u \in Members |-> IF u \in count[c].gone THEN NoStanding ELSE standing[u]]
    BY <1>22 DEF DeleteAll, EndCount, OnlyCounts
  <2>2. CASE count[c].gone = {}
    <3>1. UNCHANGED standing  BY <1>1, <2>1, <2>2
    <3> QED  BY <1>21, <2>1, <3>1
  <2>3. CASE count[c].gone # {}
    <3>1. count[c].gone = Listed  BY <1>1, <2>1, <2>3 DEF GoneInv
    <3>2. \A d \in Counts \ {c} : count[d].gone = {}
      BY <1>1, <3>1 DEF GoneInv
    <3>a. /\ CountInv'
          /\ \A d \in Counts : count'[d].gone = IF d = c THEN {} ELSE count[d].gone
      BY <1>7, <2>1
    <3>3. CountInv' /\ \A d \in Counts : count'[d].gone = {}  BY <3>a, <3>2
    <3>4. GoneInv'  BY <3>3 DEF GoneInv
    <3>5. \A u \in Members : standing'[u] = IF u \in Listed THEN NoStanding ELSE standing[u]
      BY <2>1, <3>1
    <3>6. Listed' = {}  BY <3>5 DEF Listed, NoStanding
    <3>7. \A u \in Members : standing'[u].week <= standing'[u].all
      BY <1>5, <3>5 DEF NoStanding
    <3>8. StandingsInOrder'  BY <3>6, <3>7, NobodyInOrder
    <3>9. standing' \in [Members -> StandingRecords]  BY <1>1, <1>4, <2>1
    <3> QED  BY <3>3, <3>4, <3>8, <3>9 DEF StandingInv
  <2> QED  BY <2>2, <2>3
<1>23. ASSUME NEW c \in Counts, CountFails(c)  PROVE StandingInv'
  BY <1>21, <1>23 DEF CountFails, EndCount, OnlyCounts
<1> HIDE DEF Over
<1>24. Still /\ UNCHANGED earned /\ Kept => StandingInv'  BY <1>6, <1>9 DEF Kept
<1>25. ASSUME NEW u \in Members, NEW v \in Members, Create(u) \/ Kick(v, u)  PROVE StandingInv'
  BY <1>8, <1>10, <1>11, <1>24, <1>25
<1>26. ASSUME NEW q \in Requests, NEW u \in Members,
              \/ JoinWrite(q) \/ LeaveWrite(q) \/ TransferWrite(q)
              \/ UpdateWrite(q) \/ Drop(q) \/ JoinCheck(q, u) \/ LeaveCheck(q, u)
              \/ \E v \in Members : TransferCheck(q, u, v)
              \/ \E op \in {"update", "delete"} : OwnerCheck(q, op, u)
       PROVE  StandingInv'
  <2>1. Kept  BY <1>12, <1>13, <1>14, <1>16, <1>26
  <2>2. Still /\ UNCHANGED earned  BY <1>8, <1>26
  <2> QED  BY <1>24, <2>1, <2>2
<1>27. ASSUME NEW q \in Requests,
              JoinWrite(q) \/ LeaveWrite(q) \/ TransferWrite(q) \/ UpdateWrite(q) \/ Drop(q)
       PROVE  StandingInv'
  <2>1. Kept  BY <1>12, <1>13, <1>14, <1>15, <1>27 DEF UpdateWrite, Drop
  <2>2. Still /\ UNCHANGED earned
    BY <1>27 DEF JoinWrite, LeaveWrite, TransferWrite, UpdateWrite, Drop, Quiet, Still
  <2> QED  BY <1>24, <2>1, <2>2
<1> QED
  BY <1>17, <1>18, <1>19, <1>20, <1>22, <1>23, <1>25, <1>26, <1>27 DEF LeaguesNext

(* The league's tables, and what its requests and recalculations have read *)
(* of them, stay in order through the whole season.                        *)
LEMMA StandingsAlways == Spec => [](LeagueInv /\ StandingInv)
<1>1. Init => LeagueShape /\ StandingInv
  <2> SUFFICES ASSUME Init  PROVE LeagueShape /\ StandingInv
    OBVIOUS
  <2> USE DEF Init, LeaguesInit
  <2>1. LeagueShape  BY DEF LeagueShape, NoRequest, Roles, Ops
  <2>2. earned \in [Members -> Nat]  OBVIOUS
  <2>3. CountOK(NoCount, earned) /\ NoCount.gone = {}  BY <2>2, NoCountOK DEF NoCount
  <2>4. \A c \in Counts : count[c] = NoCount  OBVIOUS
  <2>5. CountInv  BY <2>3, <2>4 DEF CountInv
  <2>6. GoneInv  BY <2>3, <2>4 DEF GoneInv
  <2>7. standing \in [Members -> StandingRecords]  BY DEF NoStanding, StandingRecords
  <2>8. Listed = {} /\ \A u \in Members : standing[u].week <= standing[u].all
    BY DEF Listed, NoStanding
  <2>9. Cardinality(Listed) = 0 /\ 1 .. 0 = {}  BY <2>8, FS_EmptySet
  <2>10. StandingsInOrder  BY <2>8, <2>9 DEF StandingsInOrder, InOrder
  <2> QED  BY <2>1, <2>5, <2>6, <2>7, <2>10 DEF StandingInv
<1>2. LeagueInv /\ LeagueInv' /\ StandingInv /\ [Next]_seasonVars => StandingInv'
  <2> SUFFICES ASSUME LeagueInv, LeagueInv', StandingInv, [Next]_seasonVars
               PROVE  StandingInv'
    OBVIOUS
  <2>1. LeagueShape /\ LeagueShape'  BY DEF LeagueInv
  <2>2. CASE LeaguesNext  BY <2>1, <2>2, StandingStep
  <2>3. CASE UNCHANGED leagueVars
    <3>1. UNCHANGED <<membership, earned, standing, count>>  BY <2>3 DEF leagueVars
    <3>2. CountInv' /\ GoneInv'  BY <3>1 DEF StandingInv, CountInv, GoneInv, Listed
    <3>3. StandingsInOrder'
      BY <3>1 DEF StandingInv, StandingsInOrder, InOrder, Listed
    <3> QED  BY <3>1, <3>2, <3>3 DEF StandingInv
  <2> QED  BY <2>2, <2>3, PartsMove
<1> QED  BY <1>1, <1>2, LeagueAlways, PTL DEF Spec

(* A reader of the standings always sees ranks from 1 without a gap and by *)
(* the points shown, and nobody with more points this week than of all     *)
(* time, for any number of members and of recalculations that read, delete *)
(* and write at the same time (leagueStandings.ts:45-199).                 *)
THEOREM StandingsAlwaysInOrder == Spec => []StandingsInOrder
<1>1. StandingInv => StandingsInOrder  BY DEF StandingInv
<1> QED  BY <1>1, StandingsAlways, PTL

-----------------------------------------------------------------------------
(* The odds *)

ProcRecords == [pc : {"idle", "fetch", "have", "found", "missing"},
                age : Ages, lag : 0 .. MaxLag, row : Rows \cup {NoRow}]
RowRecords == [there : BOOLEAN, age : Ages, stamp : Ages]
CacheRecords == [left : 0 .. TTL, age : Ages]

\* The oldest that odds are when they come from the cache
Late == TTL + MaxLag - 1

\* How old the odds are that a process holds, that the cache serves, that a row keeps.
ProcAgeOK(r) ==
  /\ r \in ProcRecords
  /\ r.pc = "fetch" => r.age <= r.lag
  /\ r.pc \in {"have", "found", "missing"} => r.age <= r.lag + Late
CacheAgeOK(c) == c \in CacheRecords /\ (c.left > 0 => c.age <= MaxLag + TTL - c.left)
RowAgeOK(r) == r \in RowRecords /\ (r.there => r.age <= r.stamp + Late + MaxLag)

AgeInv ==
  /\ row = [r \in Rows |-> row[r]] /\ \A r \in Rows : RowAgeOK(row[r])
  /\ CacheAgeOK(cache)
  /\ proc = [p \in Procs |-> proc[p]] /\ \A p \in Procs : ProcAgeOK(proc[p])

(* The bounds of the instance are numbers.                                 *)
LEMMA FeedNumbers ==
  /\ TTL \in Nat /\ TTL > 0 /\ Threshold \in Nat /\ MaxLag \in Nat /\ MaxAge \in Nat
  /\ MaxAge > Threshold + TTL + 2 * MaxLag
  /\ NoRow \notin Rows
BY OddsFeedAssumption DEF OddsFeedAssumption

(* Everything grows older by one, up to the greatest age that is counted.  *)
LEMMA Aged ==
  ASSUME NEW a \in Ages
  PROVE  Older(a) \in Ages /\ Older(a) <= a + 1 /\ Older(a) >= a /\ (a < MaxAge => Older(a) = a + 1)
BY FeedNumbers DEF Ages, Older

(* A tick keeps what is said of ages.                                      *)
LEMMA TickAges ==
  /\ \A r : RowAgeOK(r) => RowAgeOK(IF r.there THEN Odds(Older(r.age), Older(r.stamp)) ELSE Absent)
  /\ \A c : CacheAgeOK(c) =>
       CacheAgeOK(IF c.left > 1 THEN [left |-> c.left - 1, age |-> Older(c.age)] ELSE Empty)
  /\ \A r : ProcAgeOK(r) /\ (r # Rest => r.lag < MaxLag) =>
       ProcAgeOK(IF r = Rest THEN Rest ELSE [r EXCEPT !.age = Older(r.age), !.lag = r.lag + 1])
<1>1. ASSUME NEW r, RowAgeOK(r)
      PROVE  RowAgeOK(IF r.there THEN Odds(Older(r.age), Older(r.stamp)) ELSE Absent)
  <2>1. r.age \in Ages /\ r.stamp \in Ages /\ r.there \in BOOLEAN  BY <1>1 DEF RowAgeOK, RowRecords
  <2>2. CASE ~r.there
    <3>1. Absent \in RowRecords  BY FeedNumbers DEF Absent, RowRecords, Ages
    <3> QED  BY <2>2, <3>1 DEF RowAgeOK, Absent
  <2>3. CASE r.there
    <3>1. r.age <= r.stamp + Late + MaxLag  BY <1>1, <2>3 DEF RowAgeOK
    <3>2. Older(r.age) <= Older(r.stamp) + Late + MaxLag
      BY <2>1, <3>1, FeedNumbers DEF Ages, Older, Late
    <3>3. Older(r.age) \in Ages /\ Older(r.stamp) \in Ages  BY <2>1, Aged
    <3> QED  BY <2>3, <3>2, <3>3 DEF RowAgeOK, RowRecords, Odds
  <2> QED  BY <2>1, <2>2, <2>3
<1>2. ASSUME NEW c, CacheAgeOK(c)
      PROVE  CacheAgeOK(IF c.left > 1 THEN [left |-> c.left - 1, age |-> Older(c.age)] ELSE Empty)
  <2>1. c.left \in 0 .. TTL /\ c.age \in Ages  BY <1>2 DEF CacheAgeOK, CacheRecords
  <2>2. CASE c.left > 1
    <3>1. Older(c.age) \in Ages /\ Older(c.age) <= c.age + 1  BY <2>1, Aged
    <3>2. c.left - 1 \in 0 .. TTL /\ Older(c.age) <= MaxLag + TTL - (c.left - 1)
      BY <1>2, <2>1, <2>2, <3>1, FeedNumbers DEF CacheAgeOK, Ages
    <3> QED  BY <2>2, <3>1, <3>2 DEF CacheAgeOK, CacheRecords
  <2>3. CASE ~(c.left > 1)
    BY <2>3, FeedNumbers DEF CacheAgeOK, CacheRecords, Empty, Ages
  <2> QED  BY <2>2, <2>3
<1>3. ASSUME NEW r, ProcAgeOK(r), r # Rest => r.lag < MaxLag
      PROVE  ProcAgeOK(IF r = Rest THEN Rest
                       ELSE [r EXCEPT !.age = Older(r.age), !.lag = r.lag + 1])
  <2>1. CASE r = Rest  BY <1>3, <2>1
  <2>2. CASE r # Rest
    <3> DEFINE n == [r EXCEPT !.age = Older(r.age), !.lag = r.lag + 1]
    <3>1. r \in ProcRecords /\ r.age \in Ages /\ r.lag \in 0 .. MaxLag
      BY <1>3 DEF ProcAgeOK, ProcRecords
    <3>2. Older(r.age) \in Ages /\ Older(r.age) <= r.age + 1 /\ Older(r.age) \in Nat
      BY <3>1, Aged, FeedNumbers DEF Ages
    <3>3. r.lag + 1 \in 0 .. MaxLag  BY <1>3, <2>2, <3>1, FeedNumbers
    <3>4. n \in ProcRecords /\ n.pc = r.pc /\ n.age = Older(r.age) /\ n.lag = r.lag + 1
      BY <3>1, <3>2, <3>3 DEF ProcRecords
    <3>5. /\ r.pc = "fetch" => Older(r.age) <= r.lag + 1
          /\ r.pc \in {"have", "found", "missing"} => Older(r.age) <= r.lag + 1 + Late
      BY <1>3, <3>1, <3>2, FeedNumbers DEF ProcAgeOK, Late, Ages
    <3> HIDE DEF n
    <3>6. ProcAgeOK(n)  BY <3>4, <3>5 DEF ProcAgeOK
    <3> QED  BY <2>2, <3>6 DEF n
  <2> QED  BY <2>1, <2>2
<1> QED  BY <1>1, <1>2, <1>3

(* What is stored is what the process has, with a stamp that is as old as  *)
(* the step at most.                                                       *)
LEMMA StoreAges ==
  ASSUME NEW p \in Procs, AgeInv, proc[p].pc \in {"have", "found", "missing"}
  PROVE  /\ RowAgeOK(Odds(proc[p].age, 0))
         /\ RowAgeOK(Odds(proc[p].age, proc[p].lag))
         /\ \A r \in Rows, stamp \in {0, proc[p].lag} :
              row' = [row EXCEPT ![r] = Odds(proc[p].age, stamp)] =>
                /\ row' = [x \in Rows |-> row'[x]]
                /\ \A x \in Rows : RowAgeOK(row'[x])
<1> DEFINE a == proc[p].age
           l == proc[p].lag
<1>1. a \in Ages /\ l \in 0 .. MaxLag /\ a <= l + Late
  BY DEF AgeInv, ProcAgeOK, ProcRecords
<1> HIDE DEF a, l
<1>2. 0 \in Ages /\ l \in Ages /\ a <= 0 + Late + MaxLag /\ a <= l + Late + MaxLag
  BY <1>1, FeedNumbers DEF Ages, Late
<1>3. RowAgeOK(Odds(a, 0)) /\ RowAgeOK(Odds(a, l))
  BY <1>1, <1>2 DEF RowAgeOK, RowRecords, Odds
<1>4. ASSUME NEW r \in Rows, NEW stamp \in {0, l}, row' = [row EXCEPT ![r] = Odds(a, stamp)]
      PROVE  /\ row' = [x \in Rows |-> row'[x]]
             /\ \A x \in Rows : RowAgeOK(row'[x])
  BY <1>3, <1>4 DEF AgeInv
<1> QED  BY <1>3, <1>4 DEF a, l

(* A process that takes a step.                                            *)
LEMMA StepAges ==
  ASSUME NEW p \in Procs, AgeInv, NEW r, ProcAgeOK(r), proc' = [proc EXCEPT ![p] = r]
  PROVE  proc' = [q \in Procs |-> proc'[q]] /\ \A q \in Procs : ProcAgeOK(proc'[q])
BY DEF AgeInv

(* No step makes anything look younger than it is.                         *)
LEMMA AgeStep ==
  ASSUME AgeInv, FeedNext
  PROVE  AgeInv'
<1> USE FeedNumbers
<1>0. /\ ProcAgeOK(Rest)
      /\ \A r \in Rows : RowAgeOK(row[r])
      /\ RowAgeOK(Absent) /\ CacheAgeOK(Empty)
      /\ Procs = Importers \cup Syncers \cup Bettors /\ Runners \subseteq Procs
  BY DEF AgeInv, ProcAgeOK, ProcRecords, Rest, RowAgeOK, RowRecords, Absent, CacheAgeOK,
         CacheRecords, Empty, Ages, Procs, Runners
<1>1. \A p \in Procs : proc[p] \in ProcRecords /\ proc[p].age \in Ages
                        /\ proc[p].row \in Rows \cup {NoRow}
  BY DEF AgeInv, ProcAgeOK, ProcRecords
<1>2. ASSUME NEW p \in Procs, NEW r \in Rows \cup {NoRow}, Ask(p, r), UNCHANGED <<row, cache>>
      PROVE  AgeInv'
  <2>1. CASE Served
    <3> DEFINE n == [pc |-> "have", age |-> cache.age, lag |-> 0, row |-> r]
    <3>1. cache.age \in Ages /\ cache.age <= 0 + Late
      BY <2>1 DEF AgeInv, CacheAgeOK, CacheRecords, Served, Late, Ages
    <3>2. ProcAgeOK(n)  BY <3>1, <1>2 DEF ProcAgeOK, ProcRecords
    <3>3. proc' = [proc EXCEPT ![p] = n]  BY <1>2, <2>1 DEF Ask, Step
    <3> HIDE DEF n
    <3> QED  BY <3>2, <3>3, <1>2, StepAges DEF AgeInv
  <2>2. CASE ~Served
    <3> DEFINE n == [pc |-> "fetch", age |-> 0, lag |-> 0, row |-> r]
    <3>1. ProcAgeOK(n)  BY <1>2 DEF ProcAgeOK, ProcRecords, Ages
    <3>2. proc' = [proc EXCEPT ![p] = n]  BY <1>2, <2>2 DEF Ask, Step
    <3> HIDE DEF n
    <3> QED  BY <3>1, <3>2, <1>2, StepAges DEF AgeInv
  <2> QED  BY <2>1, <2>2
<1>3. ASSUME NEW p \in Procs, proc' = [proc EXCEPT ![p] = Rest],
             row' = [r \in Rows |-> row'[r]], \A r \in Rows : RowAgeOK(row'[r]), UNCHANGED cache
      PROVE  AgeInv'
  BY <1>0, <1>3, StepAges DEF AgeInv
<1>4. CASE FeedTick
  <2>1. row' = [r \in Rows |-> row'[r]] /\ \A r \in Rows : RowAgeOK(row'[r])
    BY <1>0, <1>4, TickAges DEF FeedTick
  <2>2. CacheAgeOK(cache')  BY <1>4, TickAges DEF FeedTick, AgeInv
  <2>3. proc' = [p \in Procs |-> proc'[p]] /\ \A p \in Procs : ProcAgeOK(proc'[p])
    BY <1>4, TickAges DEF FeedTick, AgeInv
  <2> QED  BY <2>1, <2>2, <2>3 DEF AgeInv
<1>5. CASE ClearCache  BY <1>0, <1>5 DEF ClearCache, AgeInv
<1>6. ASSUME NEW r \in Rows, Remove(r)  PROVE AgeInv'
  BY <1>0, <1>6 DEF Remove, AgeInv
<1>7. ASSUME NEW p \in Procs, Receive(p)  PROVE AgeInv'
  <2> DEFINE n == [pc |-> "have", age |-> proc[p].age, lag |-> 0, row |-> proc[p].row]
  <2>1. proc[p].age <= proc[p].lag /\ proc[p].lag \in 0 .. MaxLag
    BY <1>7 DEF Receive, AgeInv, ProcAgeOK, ProcRecords
  <2>2. proc[p].age <= 0 + Late /\ proc[p].age <= MaxLag + TTL - TTL
    BY <1>1, <2>1 DEF Late, Ages
  <2>3. ProcAgeOK(n)  BY <1>1, <2>2 DEF ProcAgeOK, ProcRecords
  <2>4. proc' = [proc EXCEPT ![p] = n]  BY <1>7 DEF Receive, Step
  <2>5. CacheAgeOK(cache')  BY <1>1, <1>7, <2>2 DEF Receive, CacheAgeOK, CacheRecords
  <2> HIDE DEF n
  <2> QED  BY <2>3, <2>4, <2>5, <1>7, StepAges DEF Receive, AgeInv
<1>8. ASSUME NEW p \in Runners, Run(p)  PROVE AgeInv'
  <2>1. p \in Procs  BY <1>0
  <2>2. \E r \in Rows \cup {NoRow} : Ask(p, r)  BY <1>8 DEF Run, Present
  <2> QED  BY <2>1, <2>2, <1>2, <1>8 DEF Run
<1>9. ASSUME NEW p \in Runners, FetchFails(p) \/ NotListed(p)  PROVE AgeInv'
  BY <1>0, <1>3, <1>9 DEF FetchFails, NotListed, Leave, AgeInv
<1>10. ASSUME NEW p \in Runners, WriteOdds(p)  PROVE AgeInv'
  <2>1. proc[p].pc \in {"have", "found", "missing"} /\ p \in Procs
    BY <1>0, <1>10 DEF WriteOdds
  <2>2. row' = [r \in Rows |-> row'[r]] /\ \A r \in Rows : RowAgeOK(row'[r])
    BY <1>0, <1>10, <2>1, StoreAges DEF WriteOdds, Store, Present, AgeInv
  <2> QED  BY <2>1, <2>2, <1>3, <1>10 DEF WriteOdds, Leave
<1>11. ASSUME NEW p \in Importers, Find(p)  PROVE AgeInv'
  <2>1. p \in Procs /\ proc[p].pc = "have"  BY <1>0, <1>11 DEF Find
  <2>2. \E n : ProcAgeOK(n) /\ proc' = [proc EXCEPT ![p] = n]
    <3>1. CASE \E r \in Present : proc' = [proc EXCEPT ![p].pc = "found", ![p].row = r]
      <4>1. PICK r \in Rows : proc' = [proc EXCEPT ![p].pc = "found", ![p].row = r]
        BY <3>1 DEF Present
      <4> DEFINE n == [proc[p] EXCEPT !.pc = "found", !.row = r]
      <4>2. ProcAgeOK(n)  BY <1>0, <2>1 DEF AgeInv, ProcAgeOK, ProcRecords
      <4>3. proc' = [proc EXCEPT ![p] = n]  BY <4>1, <2>1 DEF AgeInv
      <4> QED  BY <4>2, <4>3
    <3>2. CASE proc' = [proc EXCEPT ![p].pc = "missing"]
      <4> DEFINE n == [proc[p] EXCEPT !.pc = "missing"]
      <4>2. ProcAgeOK(n)  BY <1>0, <2>1 DEF AgeInv, ProcAgeOK, ProcRecords
      <4>3. proc' = [proc EXCEPT ![p] = n]  BY <3>2
      <4> QED  BY <4>2, <4>3
    <3> QED  BY <3>1, <3>2, <1>11 DEF Find
  <2> QED  BY <2>1, <2>2, <1>11, StepAges DEF Find, AgeInv
<1>12. ASSUME NEW p \in Importers, CreateRow(p)  PROVE AgeInv'
  <2>1. proc[p].pc \in {"have", "found", "missing"} /\ p \in Procs
    BY <1>0, <1>12 DEF CreateRow
  <2>2. row' = [r \in Rows |-> row'[r]] /\ \A r \in Rows : RowAgeOK(row'[r])
    BY <1>12, <2>1, StoreAges DEF CreateRow
  <2> QED  BY <2>1, <2>2, <1>3, <1>12 DEF CreateRow, Leave
<1>13. ASSUME NEW p \in Bettors, PriceBet(p)  PROVE AgeInv'
  <2>1. p \in Procs  BY <1>0
  <2>2. \E r \in Rows \cup {NoRow} : Ask(p, r)  BY <1>13 DEF PriceBet, Present
  <2> QED  BY <2>1, <2>2, <1>2, <1>13 DEF PriceBet
<1>14. ASSUME NEW p \in Bettors, BetLive(p)  PROVE AgeInv'
  <2>1. proc[p].pc \in {"have", "found", "missing"} /\ p \in Procs
    BY <1>0, <1>14 DEF BetLive
  <2>2. row' = [r \in Rows |-> row'[r]] /\ \A r \in Rows : RowAgeOK(row'[r])
    BY <1>0, <1>14, <2>1, StoreAges DEF BetLive, Store, Present, AgeInv
  <2> QED  BY <2>1, <2>2, <1>3, <1>14 DEF BetLive
<1>15. ASSUME NEW p \in Bettors, BetStored(p)  PROVE AgeInv'
  BY <1>0, <1>3, <1>15 DEF BetStored, AgeInv
<1>16. CASE FeedRestart
  <2>1. ProcAgeOK(Rest)  BY FeedNumbers DEF ProcAgeOK, ProcRecords, Rest, Ages
  <2>2. CacheAgeOK(Empty)  BY FeedNumbers DEF CacheAgeOK, CacheRecords, Empty, Ages
  <2> QED  BY <2>1, <2>2, <1>16 DEF FeedRestart, AgeInv
<1> QED
  BY <1>4, <1>5, <1>6, <1>7, <1>8, <1>9, <1>10, <1>11, <1>12, <1>13, <1>14, <1>15, <1>16
  DEF FeedNext

(* At first there are no odds.                                             *)
LEMMA AgesInit == Init => AgeInv
<1> SUFFICES ASSUME Init  PROVE AgeInv
  OBVIOUS
<1> USE FeedNumbers DEF Init, FeedInit
<1>1. ProcAgeOK(Rest)  BY DEF ProcAgeOK, ProcRecords, Rest, Ages
<1>2. RowAgeOK(Absent)  BY DEF RowAgeOK, RowRecords, Absent, Ages
<1>3. CacheAgeOK(Empty)  BY DEF CacheAgeOK, CacheRecords, Empty, Ages
<1> QED  BY <1>1, <1>2, <1>3 DEF AgeInv

(* Every step of the season keeps what is said of ages.                    *)
LEMMA AgesNext == AgeInv /\ [Next]_seasonVars => AgeInv'
<1> SUFFICES ASSUME AgeInv, [Next]_seasonVars  PROVE AgeInv'
  OBVIOUS
<1>1. CASE FeedNext  BY <1>1, AgeStep
<1>2. CASE UNCHANGED feedVars  BY <1>2 DEF feedVars, AgeInv
<1> QED  BY <1>1, <1>2, PartsMove

(* The price of a bet is younger than TTL and two lags when it is live,    *)
(* and than the threshold besides when it is the stored one, whatever the  *)
(* times are set to (predictions.ts:537-552, oddsApi.ts:76, 216).          *)
THEOREM PricesAreYoung == Spec => []PriceAge
<1>1. AgeInv => PriceAge
  <2> SUFFICES ASSUME AgeInv  PROVE PriceAge
    OBVIOUS
  <2>1. ASSUME NEW p \in Bettors, proc[p].pc = "have"  PROVE proc[p].age < TTL + 2 * MaxLag
    <3>1. proc[p].age <= proc[p].lag + Late /\ proc[p].lag \in 0 .. MaxLag /\ proc[p].age \in Ages
      BY <2>1 DEF AgeInv, ProcAgeOK, ProcRecords, Procs
    <3> QED  BY <3>1, FeedNumbers DEF Late, Ages
  <2>2. ASSUME NEW r \in Rows, Fresh(r)  PROVE row[r].age < Threshold + TTL + 2 * MaxLag
    <3>1. /\ row[r].age <= row[r].stamp + Late + MaxLag /\ row[r].stamp <= Threshold
          /\ row[r].age \in Ages /\ row[r].stamp \in Ages
      BY <2>2 DEF AgeInv, RowAgeOK, RowRecords, Fresh, Present
    <3> QED  BY <3>1, FeedNumbers DEF Late, Ages
  <2> QED  BY <2>1, <2>2 DEF PriceAge
<1> QED  BY <1>1, AgesInit, AgesNext, PTL DEF Spec

-----------------------------------------------------------------------------
(* The imports *)

\* One import at a time is under way, and a row that it has not found is not there.
ImportInv ==
  /\ \A p \in Importers : proc[p] # Rest => running["import"]
  /\ \A p, q \in Importers : proc[p] # Rest /\ proc[q] # Rest => p = q
  /\ \A p \in Importers : proc[p].pc = "missing" => Present = {}
  /\ \A r, s \in Present : r = s

FeedShape ==
  /\ row = [r \in Rows |-> row[r]]
  /\ proc = [p \in Procs |-> proc[p]]
  /\ running \in [{"import", "sync"} -> BOOLEAN]
  /\ \A p \in Procs : proc[p] \in [pc : {"idle", "fetch", "have", "found", "missing"},
                                   age : Int, lag : Int, row : Rows \cup {NoRow}]

(* No step but the import's own creates a row; the step of one process     *)
(* leaves the others, and the flag of the import follows its process.      *)
LEMMA ImportStep ==
  ASSUME ImportInv, FeedShape, FeedNext
  PROVE  ImportInv' /\ (running \in [{"import", "sync"} -> BOOLEAN])'
<1> USE DEF FeedShape
<1>0. /\ Importers \cap Syncers = {} /\ Importers \cap Bettors = {}
      /\ Importers \subseteq Procs /\ Runners \subseteq Procs /\ Bettors \subseteq Procs
      /\ \A p \in Importers : Service(p) = "import" /\ p \in Runners
      /\ \A p \in Runners \ Importers : Service(p) = "sync"
  BY OddsFeedAssumption DEF OddsFeedAssumption, Runners, Procs, Service
<1>1. \A pc, age, r : pc # "idle" => [pc |-> pc, age |-> age, lag |-> 0, row |-> r] # Rest
  BY DEF Rest
<1>2. ASSUME NEW p \in Procs \ Importers, NEW n, proc' = [proc EXCEPT ![p] = n],
             Present' \subseteq Present, running'["import"] = running["import"]
      PROVE  ImportInv'
  <2>1. \A q \in Importers : proc'[q] = proc[q]  BY <1>0, <1>2
  <2> QED  BY <1>2, <2>1 DEF ImportInv
<1>3. ASSUME NEW p \in Importers, NEW n, proc' = [proc EXCEPT ![p] = n], proc[p] # Rest,
             n.pc = "missing" => Present' = {},
             Present' \subseteq Present, UNCHANGED running
      PROVE  ImportInv'
  <2>1. \A q \in Importers \ {p} : proc'[q] = proc[q] /\ proc[q] = Rest
    BY <1>0, <1>3 DEF ImportInv
  <2>2. proc'[p] = n  BY <1>0, <1>3
  <2>3. Rest.pc # "missing"  BY DEF Rest
  <2>4. running["import"]  BY <1>3 DEF ImportInv
  <2>5. \A q \in Importers : q # p => proc'[q] = Rest  BY <2>1
  <2>6. \A q \in Importers : proc'[q].pc = "missing" => Present' = {}  BY <2>2, <2>3, <2>5, <1>3
  <2>7. \A r, s \in Present' : r = s  BY <1>3 DEF ImportInv
  <2> QED  BY <1>3, <2>4, <2>5, <2>6, <2>7 DEF ImportInv
<1>4. ASSUME NEW p \in Importers, Leave(p), proc[p] # Rest, \A r, s \in Present' : r = s
      PROVE  ImportInv'
  <2>1. \A q \in Importers \ {p} : proc'[q] = proc[q] /\ proc[q] = Rest
    BY <1>0, <1>4 DEF ImportInv, Leave
  <2>2. proc'[p] = Rest  BY <1>0, <1>4 DEF Leave
  <2>3. Rest.pc # "missing"  BY DEF Rest
  <2>4. \A q \in Importers : proc'[q] = Rest  BY <2>1, <2>2
  <2> QED  BY <2>3, <2>4, <1>4 DEF ImportInv
<1>5. ASSUME NEW p \in Runners, Leave(p)
      PROVE  /\ running' \in [{"import", "sync"} -> BOOLEAN]
             /\ p \notin Importers => running'["import"] = running["import"]
  BY <1>0, <1>5 DEF Leave
<1>6. ASSUME NEW p \in Procs, proc[p].pc # "idle"  PROVE proc[p] # Rest
  BY <1>6 DEF Rest
<1>7. ASSUME NEW p \in Runners, proc[p].pc # "idle", Leave(p), Present' \subseteq Present
      PROVE  ImportInv' /\ (running \in [{"import", "sync"} -> BOOLEAN])'
  <2>1. CASE p \in Importers
    <3>1. \A r, s \in Present' : r = s  BY <1>7 DEF ImportInv
    <3> QED  BY <2>1, <3>1, <1>0, <1>4, <1>5, <1>6, <1>7
  <2>2. CASE p \notin Importers
    BY <2>2, <1>0, <1>2, <1>5, <1>7 DEF Leave
  <2> QED  BY <2>1, <2>2
<1>8. ASSUME NEW p \in Procs, NEW stamp, Store(proc[p].row, proc[p].age, stamp)
      PROVE  Present' = Present
  BY <1>8 DEF Store, Present, Odds
<1>9. ASSUME UNCHANGED row  PROVE Present' = Present
  BY <1>9 DEF Present
<1>10. ASSUME NEW p \in Procs, NEW r, Ask(p, r), proc[p] = Rest, UNCHANGED row
       PROVE  \E n : proc' = [proc EXCEPT ![p] = n] /\ n # Rest /\ n.pc # "missing"
  BY <1>1, <1>10 DEF Ask, Step
<1>11. CASE FeedTick
  <2>1. Present' = Present  BY <1>11 DEF FeedTick, Present, Odds, Absent
  <2>2. \A p \in Procs : proc'[p].pc = proc[p].pc /\ (proc'[p] # Rest => proc[p] # Rest)
    BY <1>11 DEF FeedTick
  <2> QED  BY <2>1, <2>2, <1>0, <1>11 DEF FeedTick, ImportInv
<1>12. CASE ClearCache  BY <1>9, <1>12 DEF ClearCache, ImportInv
<1>13. ASSUME NEW r \in Rows, Remove(r)
       PROVE  ImportInv' /\ (running \in [{"import", "sync"} -> BOOLEAN])'
  <2>1. Present' \subseteq Present  BY <1>13 DEF Remove, Present, Absent
  <2> QED  BY <2>1, <1>13 DEF Remove, ImportInv
<1>14. ASSUME NEW p \in Procs, Receive(p)
       PROVE  ImportInv' /\ (running \in [{"import", "sync"} -> BOOLEAN])'
  <2> DEFINE h == [pc |-> "have", age |-> proc[p].age, lag |-> 0, row |-> proc[p].row]
  <2>h. proc' = [proc EXCEPT ![p] = h] /\ h.pc = "have"  BY <1>14 DEF Receive, Step
  <2> HIDE DEF h
  <2>1. \E n : proc' = [proc EXCEPT ![p] = n] /\ n.pc = "have"  BY <2>h
  <2>2. Present' = Present /\ UNCHANGED running /\ proc[p] # Rest
    BY <1>6, <1>9, <1>14 DEF Receive
  <2>3. CASE p \in Importers  BY <2>1, <2>2, <2>3, <1>3
  <2>4. CASE p \notin Importers  BY <2>1, <2>2, <2>4, <1>2
  <2> QED  BY <2>2, <2>3, <2>4
<1>15. ASSUME NEW p \in Runners, Run(p)
       PROVE  ImportInv' /\ (running \in [{"import", "sync"} -> BOOLEAN])'
  <2>1. /\ proc[p] = Rest /\ ~running[Service(p)] /\ UNCHANGED row
        /\ running' = [running EXCEPT ![Service(p)] = TRUE]
    BY <1>15 DEF Run, MayRun
  <2>2. PICK n : proc' = [proc EXCEPT ![p] = n] /\ n # Rest /\ n.pc # "missing"
    BY <2>1, <1>0, <1>10, <1>15 DEF Run
  <2>3. Present' = Present  BY <2>1, <1>9
  <2>4. CASE p \in Importers
    <3>1. \A q \in Importers : proc[q] = Rest  BY <2>1, <2>4, <1>0 DEF ImportInv
    <3>2. running'["import"]  BY <2>1, <2>4, <1>0
    <3>3. \A q \in Importers \ {p} : proc'[q] = Rest  BY <2>2, <3>1, <1>0
    <3>4. proc'[p] = n  BY <2>2, <2>4, <1>0
    <3>5. Rest.pc # "missing"  BY DEF Rest
    <3>6. \A q \in Importers : proc'[q].pc # "missing"  BY <2>2, <3>3, <3>4, <3>5
    <3>7. ImportInv'  BY <2>3, <3>2, <3>3, <3>6 DEF ImportInv
    <3> QED  BY <2>1, <2>4, <3>7, <1>0
  <2>5. CASE p \notin Importers
    <3>1. running'["import"] = running["import"]  BY <2>1, <2>5, <1>0
    <3>2. ImportInv'  BY <2>2, <2>3, <2>5, <3>1, <1>0, <1>2
    <3> QED  BY <2>1, <2>5, <3>2, <1>0
  <2> QED  BY <2>4, <2>5
<1>16. ASSUME NEW p \in Runners, FetchFails(p) \/ NotListed(p)
       PROVE  ImportInv' /\ (running \in [{"import", "sync"} -> BOOLEAN])'
  BY <1>7, <1>9, <1>16 DEF FetchFails, NotListed
<1>17. ASSUME NEW p \in Runners, WriteOdds(p)
       PROVE  ImportInv' /\ (running \in [{"import", "sync"} -> BOOLEAN])'
  <2>1. Present' = Present  BY <1>0, <1>8, <1>17 DEF WriteOdds
  <2>2. proc[p].pc # "idle"  BY <1>17 DEF WriteOdds
  <2> QED  BY <2>1, <2>2, <1>7, <1>17 DEF WriteOdds
<1>18. ASSUME NEW p \in Importers, Find(p)
       PROVE  ImportInv' /\ (running \in [{"import", "sync"} -> BOOLEAN])'
  <2>1. Present' = Present /\ UNCHANGED running /\ proc[p] # Rest /\ p \in Procs
    BY <1>0, <1>6, <1>9, <1>18 DEF Find
  <2>2. CASE \E r \in Present : proc' = [proc EXCEPT ![p].pc = "found", ![p].row = r]
    <3>1. PICK r \in Present : proc' = [proc EXCEPT ![p].pc = "found", ![p].row = r]
      BY <2>2
    <3> DEFINE n == [proc[p] EXCEPT !.pc = "found", !.row = r]
    <3>2. proc' = [proc EXCEPT ![p] = n] /\ n.pc = "found"  BY <3>1, <2>1
    <3> HIDE DEF n
    <3> QED  BY <3>2, <2>1, <1>3
  <2>3. CASE Present = {} /\ proc' = [proc EXCEPT ![p].pc = "missing"]
    <3>1. proc' = [proc EXCEPT ![p] = [proc[p] EXCEPT !.pc = "missing"]]  BY <2>3
    <3> QED  BY <3>1, <2>1, <2>3, <1>3
  <2> QED  BY <2>2, <2>3, <1>18 DEF Find
<1>19. ASSUME NEW p \in Importers, CreateRow(p)
       PROVE  ImportInv' /\ (running \in [{"import", "sync"} -> BOOLEAN])'
  <2>1. Present = {} /\ proc[p] # Rest /\ p \in Runners
    BY <1>0, <1>6, <1>19 DEF CreateRow, ImportInv
  <2>2. PICK r \in Rows : row' = [row EXCEPT ![r] = Odds(proc[p].age, 0)]
    BY <1>19 DEF CreateRow
  <2>3. Present' \subseteq {r}  BY <2>1, <2>2 DEF Present
  <2>4. \A x, y \in Present' : x = y  BY <2>3
  <2>5. Leave(p)  BY <1>19 DEF CreateRow
  <2> QED  BY <2>1, <2>4, <2>5, <1>4, <1>5
<1>20. ASSUME NEW p \in Bettors, PriceBet(p)
       PROVE  ImportInv' /\ (running \in [{"import", "sync"} -> BOOLEAN])'
  <2>1. proc[p] = Rest /\ UNCHANGED <<row, running>> /\ \E r : Ask(p, r)
    BY <1>20 DEF PriceBet
  <2> QED  BY <2>1, <1>0, <1>2, <1>9, <1>10
<1>21. ASSUME NEW p \in Bettors, BetLive(p) \/ BetStored(p)
       PROVE  ImportInv' /\ (running \in [{"import", "sync"} -> BOOLEAN])'
  <2>1. Present' = Present  BY <1>0, <1>8, <1>9, <1>21 DEF BetLive, BetStored
  <2> QED  BY <2>1, <1>0, <1>2, <1>21 DEF BetLive, BetStored
<1>22. CASE FeedRestart
  <2>1. \A p \in Importers : proc'[p] = Rest  BY <1>0, <1>22 DEF FeedRestart
  <2>2. Rest.pc # "missing"  BY DEF Rest
  <2> QED  BY <2>1, <2>2, <1>9, <1>22 DEF FeedRestart, ImportInv
<1> QED
  BY <1>11, <1>12, <1>13, <1>14, <1>15, <1>16, <1>17, <1>18, <1>19, <1>20, <1>21, <1>22
  DEF FeedNext

FlagsOK == running \in [{"import", "sync"} -> BOOLEAN] /\ critical \in BOOLEAN

(* Ages, imports and flags stay what they are said to be through every     *)
(* step of the season.                                                     *)
LEMMA FeedAlways == Spec => [](AgeInv /\ ImportInv /\ FlagsOK)
<1>1. Init => AgeInv /\ ImportInv /\ FlagsOK
  <2> SUFFICES ASSUME Init  PROVE ImportInv /\ FlagsOK
    BY AgesInit
  <2>1. Present = {}  BY DEF Init, FeedInit, Present, Absent
  <2>2. \A p \in Importers : proc[p] = Rest  BY DEF Init, FeedInit, Procs, Runners
  <2> QED  BY <2>1, <2>2 DEF Init, FeedInit, ImportInv, FlagsOK
<1>2. AgeInv /\ ImportInv /\ FlagsOK /\ [Next]_seasonVars => (AgeInv /\ ImportInv /\ FlagsOK)'
  <2> SUFFICES ASSUME AgeInv, ImportInv, FlagsOK, [Next]_seasonVars
               PROVE  ImportInv' /\ FlagsOK'
    BY AgesNext
  <2>1. CASE FeedNext
    <3>1. FeedShape
      BY FeedNumbers DEF AgeInv, FeedShape, ProcAgeOK, ProcRecords, Ages, FlagsOK
    <3>2. critical' \in BOOLEAN
      BY <2>1 DEF FlagsOK, FeedNext, FeedTick, FeedRestart, ClearCache, Remove, Receive, Run, FetchFails,
                  NotListed, WriteOdds, Find, CreateRow, PriceBet, BetLive, BetStored
    <3> QED  BY <2>1, <3>1, <3>2, ImportStep DEF FlagsOK
  <2>2. CASE UNCHANGED feedVars  BY <2>2 DEF feedVars, ImportInv, Present, FlagsOK
  <2> QED  BY <2>1, <2>2, PartsMove
<1> QED  BY <1>1, <1>2, PTL DEF Spec

(* No two imports create the provider's event, whoever starts them, and    *)
(* when the process that keeps them apart by a flag in its memory ends in  *)
(* the middle of one and starts again (eventImport.ts:40, 47-173).         *)
THEOREM EventIsImportedOnce == Spec => []ImportedOnce
<1>1. ImportInv => ImportedOnce
  <2> SUFFICES ASSUME ImportInv  PROVE Cardinality(Present) <= 1
    BY DEF ImportedOnce
  <2>1. CASE Present = {}  BY <2>1, FS_EmptySet
  <2>2. CASE Present # {}
    <3>0. PICK r : r \in Present  BY <2>2
    <3>1. Present = {r}  BY <3>0 DEF ImportInv
    <3>2. Cardinality({r}) = 1  BY FS_Singleton
    <3> QED  BY <3>1, <3>2
  <2> QED  BY <2>1, <2>2
<1> QED  BY <1>1, FeedAlways, PTL

-----------------------------------------------------------------------------
(* The page of the events *)

OrderRecords == [kind : RowKinds \cup Flags \cup {"none"}, of : Fixtures \cup {NoFixture},
                 chip : Chips, step : {"none", "sent", "done", "refused", "reload"}]
ReadRecords == [asks : Chips \cup {"none"}, done : BOOLEAN, rows : Tables]

(* The list is replaced, or a request for it starts: rows, drafts and      *)
(* flags keep their types (AdminEventsPage.tsx:560-600).                   *)
LEMMA DeskListStep ==
  ASSUME DeskTypeOK, NEW r \in Orders \cup Readings, NEW c \in Chips
  PROVE  /\ NoRead \in ReadRecords
         /\ fetched[r] \in ReadRecords
         /\ LoadData(r, c) => /\ fetched' \in [Orders \cup Readings -> ReadRecords]
                              /\ awaited' \in BOOLEAN /\ broken' \in BOOLEAN
                              /\ draft' \in [Fixtures -> [odds : 0 .. MaxWrites, typed : BOOLEAN]]
         /\ ListEnds(r) => /\ fetched' \in [Orders \cup Readings -> ReadRecords]
                           /\ awaited' \in BOOLEAN
         /\ EventsOf(c) \in Tables
         /\ Drafts(fetched[r].rows) \in [Fixtures -> [odds : 0 .. MaxWrites, typed : BOOLEAN]]
<1> USE DeskAssumption
<1>1. /\ fetched \in [Orders \cup Readings -> ReadRecords]
      /\ fixture \in [Fixtures -> EventStates]
  BY DEF DeskTypeOK, ReadRecords
<1>2. Unlisted \in EventStates \cup {Unlisted}  OBVIOUS
<1>3. [e \in Fixtures |-> Unlisted] \in Tables  BY <1>2 DEF Tables
<1>4. NoRead \in ReadRecords  BY <1>3 DEF NoRead, ReadRecords
<1>5. Untouched \in [odds : 0 .. MaxWrites, typed : BOOLEAN]  BY DEF Untouched
<1>6. [e \in Fixtures |-> Untouched] \in [Fixtures -> [odds : 0 .. MaxWrites, typed : BOOLEAN]]
  BY <1>5
<1>7. [NoRead EXCEPT !.asks = c] \in ReadRecords  BY <1>4 DEF ReadRecords
<1>8. EventsOf(c) \in Tables  BY <1>1 DEF EventsOf, Tables
<1>9. fetched[r] \in ReadRecords /\ fetched[r].rows \in Tables  BY <1>1 DEF ReadRecords
<1>10. \A e \in Fixtures : fetched[r].rows[e].odds \in 0 .. MaxWrites
  BY <1>9 DEF Tables, EventStates, Unlisted
<1>11. Drafts(fetched[r].rows) \in [Fixtures -> [odds : 0 .. MaxWrites, typed : BOOLEAN]]
  BY <1>5, <1>10 DEF Drafts
<1>12. LoadData(r, c) => fetched' \in [Orders \cup Readings -> ReadRecords]
  BY <1>1, <1>7 DEF LoadData
<1>13. ListEnds(r) => fetched' \in [Orders \cup Readings -> ReadRecords]
  BY <1>1, <1>4 DEF ListEnds
<1> QED  BY <1>4, <1>6, <1>8, <1>9, <1>11, <1>12, <1>13 DEF LoadData, ListEnds

(* An order is given, carried out or over: its record, the flags and the   *)
(* events keep their types, also where it names no event                   *)
(* (AdminEventsPage.tsx:560-980).                                          *)
LEMMA DeskOrderStep ==
  ASSUME DeskTypeOK, NEW o \in Orders
  PROVE  /\ \A kind \in RowKinds \cup {"save", "edit", "import"}, e \in Fixtures \cup {NoFixture} :
              \A mark \in Fixtures \cup {NoFixture, "new"} :
                SendOrder(o, kind, e, mark) =>
                  /\ order' \in [Orders -> OrderRecords]
                  /\ busy' \in [Flags -> Fixtures \cup {NoFixture, "new"}]
         /\ Ended(o) => /\ order' \in [Orders -> OrderRecords]
                        /\ busy' \in [Flags -> Fixtures \cup {NoFixture, "new"}]
         /\ \A s \in {"done", "refused", "reload"} :
              [order EXCEPT ![o].step = s] \in [Orders -> OrderRecords]
         /\ Executed(o) => fixture' \in [Fixtures -> EventStates] /\ linked' \subseteq Fixtures
<1> USE DeskAssumption
<1>1. /\ order \in [Orders -> OrderRecords]
      /\ busy \in [Flags -> Fixtures \cup {NoFixture, "new"}]
      /\ fixture \in [Fixtures -> EventStates] /\ linked \subseteq Fixtures /\ chip \in Chips
  BY DEF DeskTypeOK, OrderRecords
<1>2. ASSUME NEW kind \in RowKinds \cup {"save", "edit", "import"},
             NEW e \in Fixtures \cup {NoFixture}, NEW mark \in Fixtures \cup {NoFixture, "new"},
             SendOrder(o, kind, e, mark)
      PROVE  /\ order' \in [Orders -> OrderRecords]
             /\ busy' \in [Flags -> Fixtures \cup {NoFixture, "new"}]
  <2>1. [kind |-> kind, of |-> e, chip |-> chip, step |-> "sent"] \in OrderRecords
    BY <1>1 DEF OrderRecords, Flags
  <2> QED  BY <1>1, <1>2, <2>1 DEF SendOrder
<1>3. ASSUME Ended(o)
      PROVE  /\ order' \in [Orders -> OrderRecords]
             /\ busy' \in [Flags -> Fixtures \cup {NoFixture, "new"}]
  <2>1. NoOrder \in OrderRecords  BY DEF NoOrder, OrderRecords
  <2> QED  BY <1>1, <1>3, <2>1 DEF Ended
<1>4. ASSUME NEW s \in {"done", "refused", "reload"}
      PROVE  [order EXCEPT ![o].step = s] \in [Orders -> OrderRecords]
  BY <1>1 DEF OrderRecords
<1>5. ASSUME Executed(o)
      PROVE  fixture' \in [Fixtures -> EventStates] /\ linked' \subseteq Fixtures
  <2>1. CASE Edited(o)
    <3> DEFINE e == order[o].of
    <3>1. /\ fixture' = [fixture EXCEPT ![e].odds = @ + 1] /\ fixture[e].odds < MaxWrites
          /\ linked' \subseteq Fixtures
      BY <1>1, <2>1 DEF Edited
    <3> HIDE DEF e
    <3>2. e \in Fixtures => fixture[e].odds + 1 \in 0 .. MaxWrites
      BY <1>1, <3>1 DEF EventStates
    <3>3. ASSUME NEW x \in Fixtures  PROVE fixture'[x] \in EventStates
      BY <1>1, <3>1, <3>2 DEF EventStates
    <3>4. fixture' = [x \in Fixtures |-> fixture'[x]]  BY <1>1, <3>1
    <3> QED  BY <3>1, <3>3, <3>4
  <2>2. CASE \E m \in Moves : /\ fixture' = [fixture EXCEPT ![order[o].of].status = m[3]]
                              /\ UNCHANGED linked
    <3>1. \A m \in Moves : m[3] \in {"OPEN", "LOCKED", "SETTLED", "CANCELLED"}  BY DEF Moves
    <3>2. PICK m \in Moves : fixture' = [fixture EXCEPT ![order[o].of].status = m[3]]  BY <2>2
    <3>3. PICK s \in {"OPEN", "LOCKED", "SETTLED", "CANCELLED"} :
            fixture' = [fixture EXCEPT ![order[o].of].status = s]
      BY <3>1, <3>2
    <3>4. \A x \in Fixtures : [fixture[x] EXCEPT !.status = s] \in EventStates
      BY <1>1 DEF EventStates
    <3> QED  BY <1>1, <2>2, <3>3, <3>4
  <2>3. CASE UNCHANGED <<fixture, linked>>  BY <1>1, <2>3
  <2> QED  BY <1>5, <2>1, <2>2, <2>3 DEF Executed
<1> QED  BY <1>2, <1>3, <1>4, <1>5

(* The page's lists, drafts, orders, flags and dialogs keep their types    *)
(* through every step of the page and of those who change the events       *)
(* around it (AdminEventsPage.tsx).                                        *)
LEMMA DeskTypeStep ==
  ASSUME DeskTypeOK, DeskNext \/ UNCHANGED deskVars
  PROVE  DeskTypeOK'
<1> USE DeskAssumption
<1> DEFINE Typed == [odds : 0 .. MaxWrites, typed : BOOLEAN]
<1>1. /\ fixture \in [Fixtures -> EventStates] /\ linked \subseteq Fixtures
      /\ priced \subseteq Fixtures /\ chip \in Chips /\ table \in Tables
      /\ draft \in [Fixtures -> Typed]
      /\ awaited \in BOOLEAN /\ broken \in BOOLEAN
      /\ fetched \in [Orders \cup Readings -> ReadRecords]
      /\ order \in [Orders -> OrderRecords]
      /\ busy \in [Flags -> Fixtures \cup {NoFixture, "new"}]
      /\ dialog \in [kind : {"none", "settle", "edit", "import"}, of : Fixtures \cup {NoFixture}]
      /\ preview \in [text : Sheets, shown : Sheets]
  BY DEF DeskTypeOK, ReadRecords, OrderRecords
<1>2. NoDialog \in [kind : {"none", "settle", "edit", "import"}, of : Fixtures \cup {NoFixture}]
  BY DEF NoDialog
<1>3. [text |-> NoSheet, shown |-> NoSheet] \in [text : Sheets, shown : Sheets]  OBVIOUS
<1>4. SUFFICES
      /\ fixture' \in [Fixtures -> EventStates] /\ linked' \subseteq Fixtures
      /\ priced' \subseteq Fixtures /\ chip' \in Chips /\ table' \in Tables
      /\ draft' \in [Fixtures -> Typed]
      /\ awaited' \in BOOLEAN /\ broken' \in BOOLEAN
      /\ fetched' \in [Orders \cup Readings -> ReadRecords]
      /\ order' \in [Orders -> OrderRecords]
      /\ busy' \in [Flags -> Fixtures \cup {NoFixture, "new"}]
      /\ dialog' \in [kind : {"none", "settle", "edit", "import"}, of : Fixtures \cup {NoFixture}]
      /\ preview' \in [text : Sheets, shown : Sheets]
  BY DEF DeskTypeOK, ReadRecords, OrderRecords, Tables, EventStates
<1> USE <1>1, <1>2, <1>3 DEF serverVars, listVars
<1> HIDE DeskAssumption
<1>5. ASSUME NEW e \in Fixtures, Decided(e)  PROVE <1>4!1
  <2>1. \A m \in Moves : m[3] \in {"OPEN", "LOCKED", "SETTLED", "CANCELLED"}  BY DEF Moves
  <2>2. PICK m \in Moves : fixture' = [fixture EXCEPT ![e].status = m[3]]  BY <1>5 DEF Decided
  <2>3. PICK s \in {"OPEN", "LOCKED", "SETTLED", "CANCELLED"} :
          fixture' = [fixture EXCEPT ![e].status = s]
    BY <2>1, <2>2
  <2>4. \A x \in Fixtures : [fixture[x] EXCEPT !.status = s] \in EventStates
    BY DEF EventStates
  <2>5. fixture' \in [Fixtures -> EventStates]  BY <2>3, <2>4
  <2> QED  BY <1>5, <2>5 DEF Decided
<1>6. ASSUME NEW e \in Fixtures, FetchPrices(e)  PROVE <1>4!1
  BY <1>6 DEF FetchPrices
<1>7. ASSUME NEW e \in Fixtures, StorePrices(e)  PROVE <1>4!1
  <2>1. fixture[e].odds + 1 \in 0 .. MaxWrites
    BY <1>7, DeskAssumption DEF StorePrices, EventStates
  <2>2. [fixture[e] EXCEPT !.odds = @ + 1] \in EventStates
    BY <2>1 DEF EventStates
  <2>3. fixture' \in [Fixtures -> EventStates]  BY <1>7, <2>2 DEF StorePrices
  <2> QED  BY <1>7, <2>3 DEF StorePrices
<1>8. ASSUME NEW e \in Fixtures, TypePrice(e)  PROVE <1>4!1
  <2>1. draft' \in [Fixtures -> Typed]  BY <1>8 DEF TypePrice
  <2> QED  BY <1>8, <2>1 DEF TypePrice
<1>9. ASSUME NEW e \in Fixtures, ResetPrices(e)  PROVE <1>4!1
  <2>1. table[e].odds \in 0 .. MaxWrites
    BY DeskAssumption DEF Tables, EventStates, Unlisted
  <2>2. draft' \in [Fixtures -> Typed]  BY <1>9, <2>1 DEF ResetPrices
  <2> QED  BY <1>9, <2>2 DEF ResetPrices
<1>10. ASSUME NEW d \in [kind : {"none", "settle", "edit", "import"}, of : Fixtures \cup {NoFixture}],
              OpenDialog(d)
       PROVE <1>4!1
  BY <1>10 DEF OpenDialog
<1>11. ASSUME NEW e \in Fixtures, OpenSettle(e)  PROVE <1>4!1
  BY <1>10, <1>11 DEF OpenSettle
<1>12. ASSUME NEW e \in Fixtures \cup {NoFixture}, OpenEditor(e)  PROVE <1>4!1
  BY <1>10, <1>12 DEF OpenEditor
<1>13. ASSUME OpenImport  PROVE <1>4!1
  BY <1>10, <1>13 DEF OpenImport
<1>14. ASSUME NEW r \in Orders \cup Readings, ReadEvents(r)  PROVE <1>4!1
  <2>1. fetched[r].asks \in Chips  BY <1>14 DEF ReadEvents, ReadRecords
  <2>2. EventsOf(fetched[r].asks) \in Tables  BY <2>1, DeskListStep
  <2>3. [fetched[r] EXCEPT !.done = TRUE, !.rows = EventsOf(fetched[r].asks)] \in ReadRecords
    <3>1. fetched[r] \in ReadRecords  OBVIOUS
    <3>2. \A a \in ReadRecords, t \in Tables :
            [a EXCEPT !.done = TRUE, !.rows = t] \in ReadRecords
      BY DEF ReadRecords
    <3> QED  BY <2>2, <3>1, <3>2
  <2>4. fetched' = [fetched EXCEPT ![r] = [fetched[r] EXCEPT !.done = TRUE,
                                                             !.rows = EventsOf(fetched[r].asks)]]
    BY <1>14 DEF ReadEvents
  <2>5. fetched' \in [Orders \cup Readings -> ReadRecords]
    BY <2>3, <2>4
  <2> QED  BY <1>14, <2>5 DEF ReadEvents
<1>15. ASSUME NEW r \in Orders \cup Readings, ListEnds(r)
       PROVE  /\ order' \in [Orders -> OrderRecords]
              /\ busy' \in [Flags -> Fixtures \cup {NoFixture, "new"}]
              /\ fetched' \in [Orders \cup Readings -> ReadRecords]
              /\ awaited' \in BOOLEAN
  <2>1. CASE r \in Orders  BY <1>15, <2>1, DeskOrderStep, DeskListStep DEF ListEnds
  <2>2. CASE r \notin Orders  BY <1>15, <2>2, DeskListStep DEF ListEnds
  <2> QED  BY <2>1, <2>2
<1>16. ASSUME NEW r \in Orders \cup Readings, ListAnswered(r)  PROVE <1>4!1
  <2>1. fetched[r].rows \in Tables  BY DEF ReadRecords
  <2>2. Drafts(fetched[r].rows) \in [Fixtures -> Typed]  BY DeskListStep
  <2>3. ListEnds(r)  BY <1>16 DEF ListAnswered
  <2> QED  BY <1>15, <1>16, <2>1, <2>2, <2>3 DEF ListAnswered, ListEnds
<1>17. ASSUME NEW r \in Orders \cup Readings, ListFails(r)  PROVE <1>4!1
  <2>1. [e \in Fixtures |-> Untouched] \in [Fixtures -> Typed]
    BY DeskAssumption DEF Untouched
  <2>2. ListEnds(r)  BY <1>17 DEF ListFails
  <2> QED  BY <1>15, <1>17, <2>1, <2>2 DEF ListFails, ListEnds
<1>18. ASSUME NEW r \in Readings, RetryList(r)  PROVE <1>4!1
  BY <1>18, DeskListStep DEF RetryList
<1>19. ASSUME NEW r \in Readings, NEW c \in Chips, ChooseChip(c, r)  PROVE <1>4!1
  BY <1>19, DeskListStep DEF ChooseChip
<1>20. ASSUME NEW o \in Orders, NEW kind \in RowKinds \cup {"save", "edit", "import"},
              NEW e \in Fixtures \cup {NoFixture}, NEW mark \in Fixtures \cup {NoFixture, "new"},
              SendOrder(o, kind, e, mark)
       PROVE <1>4!1
  <2>1. /\ order' \in [Orders -> OrderRecords]
        /\ busy' \in [Flags -> Fixtures \cup {NoFixture, "new"}]
    BY <1>20, DeskOrderStep
  <2> QED  BY <1>20, <2>1 DEF SendOrder
<1>21. ASSUME NEW o \in Orders, NEW e \in Fixtures, SavePrices(o, e)  PROVE <1>4!1
  BY <1>20, <1>21 DEF SavePrices
<1>22. ASSUME NEW o \in Orders, NEW e \in Fixtures, NEW kind \in RowKinds, GiveOrder(o, kind, e)
       PROVE <1>4!1
  BY <1>20, <1>22 DEF GiveOrder
<1>23. ASSUME NEW o \in Orders, ConfirmSettle(o) \/ SubmitEditor(o) \/ Import(o)  PROVE <1>4!1
  <2>1. "settle" \in RowKinds  BY DEF RowKinds
  <2>2. dialog.of \in Fixtures \cup {NoFixture}  OBVIOUS
  <2> QED  BY <1>20, <1>23, <2>1, <2>2 DEF ConfirmSettle, SubmitEditor, Import
<1>24. ASSUME NEW o \in Orders, Execute(o)  PROVE <1>4!1
  <2>1. PICK s \in {"done", "refused"} : order' = [order EXCEPT ![o].step = s]
    BY <1>24 DEF Execute
  <2>2. order' \in [Orders -> OrderRecords]  BY <2>1, DeskOrderStep
  <2>3. fixture' \in [Fixtures -> EventStates] /\ linked' \subseteq Fixtures
    BY <1>24, DeskOrderStep DEF Execute
  <2> QED  BY <1>24, <2>2, <2>3 DEF Execute
<1>25. ASSUME NEW o \in Orders, OrderDone(o)  PROVE <1>4!1
  <2>1. order' \in [Orders -> OrderRecords]
    BY <1>25, DeskOrderStep DEF OrderDone
  <2>2. order[o].chip \in Chips  BY DEF OrderRecords
  <2>3. /\ fetched' \in [Orders \cup Readings -> ReadRecords]
        /\ awaited' \in BOOLEAN /\ broken' \in BOOLEAN /\ draft' \in [Fixtures -> Typed]
    BY <1>25, <2>2, DeskListStep DEF OrderDone
  <2>4. /\ dialog' \in [kind : {"none", "settle", "edit", "import"}, of : Fixtures \cup {NoFixture}]
        /\ preview' \in [text : Sheets, shown : Sheets]
    BY <1>25 DEF OrderDone
  <2> QED  BY <1>25, <2>1, <2>3, <2>4 DEF OrderDone
<1>26. ASSUME NEW o \in Orders, OrderRefused(o)  PROVE <1>4!1
  BY <1>26, DeskOrderStep DEF OrderRefused
<1>27. ASSUME CloseDialog \/ Preview \/ \E t \in Sheets : Paste(t)  PROVE <1>4!1
  <2>1. preview' \in [text : Sheets, shown : Sheets]
    BY <1>27 DEF CloseDialog, Preview, Paste
  <2>2. /\ dialog' \in [kind : {"none", "settle", "edit", "import"}, of : Fixtures \cup {NoFixture}]
        /\ UNCHANGED <<serverVars, listVars, draft, order, busy>>
    BY <1>27 DEF CloseDialog, Preview, Paste
  <2> QED  BY <2>1, <2>2
<1>28. CASE UNCHANGED deskVars  BY <1>28 DEF deskVars
<1>29. CASE DeskNext
  BY <1>29, <1>5, <1>6, <1>7, <1>8, <1>9, <1>11, <1>12, <1>13, <1>14, <1>16, <1>17, <1>18, <1>19,
     <1>21, <1>22, <1>23, <1>24, <1>25, <1>26, <1>27 DEF DeskNext
<1> QED  BY <1>28, <1>29

(* A row that stays on the page keeps the prices it was read with, and the *)
(* preview the text it was made from; a step that replaces the rows        *)
(* replaces the drafts with them (AdminEventsPage.tsx:688, 835-837).       *)
LEMMA SavesStep ==
  ASSUME DeskTypeOK, SavesWhatItShows, DeskNext \/ UNCHANGED deskVars
  PROVE  SavesWhatItShows'
<1> DEFINE Same == \A e \in Fixtures : Shown(e) => draft[e].odds = table[e].odds
<1> DEFINE Sheet == preview.shown \in {NoSheet, preview.text}
<1>1. Same /\ Sheet  BY DEF SavesWhatItShows
<1>2. SUFFICES Same' /\ Sheet'  BY DEF SavesWhatItShows
<1>3. /\ draft \in [Fixtures -> [odds : 0 .. MaxWrites, typed : BOOLEAN]]
      /\ preview \in [text : Sheets, shown : Sheets]
  BY DEF DeskTypeOK
<1>4. UNCHANGED <<listVars, draft>> => Same'  BY <1>1 DEF listVars, Shown
<1>5. UNCHANGED preview => Sheet'  BY <1>1
<1> DEFINE Blank == [text |-> NoSheet, shown |-> NoSheet]
<1>6. preview' = Blank => Sheet'  OBVIOUS
<1>7. awaited' \/ broken' => Same'  BY DEF Shown
<1> HIDE DEF Same, Sheet
<1>8. ASSUME NEW e \in Fixtures, TypePrice(e)  PROVE Same' /\ Sheet'
  <2>1. \A x \in Fixtures : draft'[x].odds = draft[x].odds  BY <1>3, <1>8 DEF TypePrice
  <2>2. UNCHANGED listVars /\ UNCHANGED preview  BY <1>8 DEF TypePrice
  <2> QED  BY <1>1, <1>5, <2>1, <2>2 DEF Same, Shown, listVars
<1>9. ASSUME NEW e \in Fixtures, ResetPrices(e)  PROVE Same' /\ Sheet'
  <2>1. \A x \in Fixtures : draft'[x].odds \in {draft[x].odds, table[x].odds}
    BY <1>3, <1>9 DEF ResetPrices
  <2>2. \A x \in Fixtures : x # e => draft'[x].odds = draft[x].odds
    BY <1>3, <1>9 DEF ResetPrices
  <2>3. UNCHANGED listVars /\ UNCHANGED preview  BY <1>9 DEF ResetPrices
  <2> QED  BY <1>1, <1>5, <2>1, <2>3 DEF Same, Shown, listVars
<1>10. ASSUME NEW r \in Orders \cup Readings, ListAnswered(r)  PROVE Same' /\ Sheet'
  <2>1. UNCHANGED <<broken, preview>>  BY <1>10 DEF ListAnswered, ListEnds
  <2>2. table' = fetched[r].rows /\ draft' = Drafts(fetched[r].rows)  BY <1>10 DEF ListAnswered
  <2>3. CASE broken  BY <1>5, <1>7, <2>1, <2>3
  <2>4. CASE ~broken
    <3>1. \A x \in Fixtures : draft'[x].odds = table'[x].odds  BY <2>2, <2>4 DEF Drafts
    <3> QED  BY <1>5, <2>1, <3>1 DEF Same
  <2> QED  BY <2>3, <2>4
<1>11. ASSUME NEW r \in Orders \cup Readings, ListFails(r)  PROVE Same' /\ Sheet'
  BY <1>5, <1>7, <1>11 DEF ListFails, ListEnds
<1>12. ASSUME NEW r \in Readings, RetryList(r) \/ \E c \in Chips : ChooseChip(c, r)
       PROVE Same' /\ Sheet'
  BY <1>5, <1>7, <1>12 DEF RetryList, ChooseChip, LoadData
<1>13. ASSUME NEW o \in Orders, OrderDone(o)  PROVE Same' /\ Sheet'
  <2>1. UNCHANGED preview \/ preview' = Blank  BY <1>13 DEF OrderDone
  <2>2. awaited'  BY <1>13 DEF OrderDone, LoadData
  <2> QED  BY <1>5, <1>6, <1>7, <2>1, <2>2
<1>14. ASSUME CloseDialog \/ Preview \/ \E t \in Sheets : Paste(t)  PROVE Same' /\ Sheet'
  <2>1. UNCHANGED <<listVars, draft>>  BY <1>14 DEF CloseDialog, Preview, Paste
  <2>2. Sheet'  BY <1>3, <1>14 DEF CloseDialog, Preview, Paste, Sheet
  <2> QED  BY <1>4, <2>1, <2>2
<1> DEFINE Elsewhere == UNCHANGED <<listVars, draft, preview>>
<1>15. Elsewhere => Same' /\ Sheet'  BY <1>4, <1>5
<1> HIDE DEF Elsewhere
<1>16. ASSUME NEW e \in Fixtures,
              Decided(e) \/ FetchPrices(e) \/ StorePrices(e) \/ OpenSettle(e)
       PROVE Elsewhere
  BY <1>16 DEF Decided, FetchPrices, StorePrices, OpenSettle, OpenDialog, Elsewhere
<1>17. ASSUME (\E e \in Fixtures \cup {NoFixture} : OpenEditor(e)) \/ OpenImport
       PROVE Elsewhere
  BY <1>17 DEF OpenEditor, OpenImport, OpenDialog, Elsewhere
<1>18. ASSUME NEW r \in Orders \cup Readings, ReadEvents(r)  PROVE Same' /\ Sheet'
  <2>1. UNCHANGED <<table, awaited, broken, draft, preview>>  BY <1>18 DEF ReadEvents
  <2> QED  BY <1>1, <1>5, <2>1 DEF Same, Shown
<1>19. ASSUME NEW o \in Orders,
              \/ \E e \in Fixtures : SavePrices(o, e) \/ \E kind \in RowKinds : GiveOrder(o, kind, e)
              \/ ConfirmSettle(o) \/ SubmitEditor(o) \/ Import(o)
       PROVE Elsewhere
  BY <1>19 DEF SavePrices, GiveOrder, ConfirmSettle, SubmitEditor, Import, SendOrder, Elsewhere
<1>20. ASSUME NEW o \in Orders, Execute(o) \/ OrderRefused(o)  PROVE Elsewhere
  BY <1>20 DEF Execute, OrderRefused, Elsewhere
<1>21. CASE UNCHANGED deskVars  BY <1>15, <1>21 DEF deskVars, listVars, Elsewhere
<1>22. CASE DeskNext
  BY <1>22, <1>8, <1>9, <1>10, <1>11, <1>12, <1>13, <1>14, <1>15, <1>16, <1>17, <1>18, <1>19, <1>20
     DEF DeskNext
<1> QED  BY <1>21, <1>22

(* The page opens empty, with the spinner on (AdminEventsPage.tsx:560).    *)
LEMMA DeskBegins == DeskInit => DeskTypeOK /\ SavesWhatItShows
<1> SUFFICES ASSUME DeskInit PROVE DeskTypeOK /\ SavesWhatItShows  OBVIOUS
<1> USE DeskAssumption
<1>1. NoRead \in ReadRecords
  <2>1. Unlisted \in EventStates \cup {Unlisted}  OBVIOUS
  <2>2. [e \in Fixtures |-> Unlisted] \in Tables  BY <2>1 DEF Tables
  <2> QED  BY <2>2 DEF NoRead, ReadRecords
<1>2. \A r \in Readings : [[s \in Orders \cup Readings |-> NoRead] EXCEPT ![r].asks = "all"]
                            \in [Orders \cup Readings -> ReadRecords]
  <2>1. [NoRead EXCEPT !.asks = "all"] \in ReadRecords  BY <1>1 DEF ReadRecords
  <2> QED  BY <1>1, <2>1
<1>3. fetched \in [Orders \cup Readings -> ReadRecords]  BY <1>2 DEF DeskInit
<1>4. NoOrder \in OrderRecords  BY DEF NoOrder, OrderRecords
<1>5. order \in [Orders -> OrderRecords]  BY <1>4 DEF DeskInit
<1>6. fixture \in [Fixtures -> EventStates]  BY DEF DeskInit, EventStates
<1>7. Unlisted \in EventStates \cup {Unlisted}  OBVIOUS
<1>8. table \in Tables  BY <1>7 DEF DeskInit, Tables
<1>9. draft \in [Fixtures -> [odds : 0 .. MaxWrites, typed : BOOLEAN]]
  BY DEF DeskInit, Untouched
<1>10. /\ linked \subseteq Fixtures /\ priced \subseteq Fixtures
       /\ chip \in Chips /\ awaited \in BOOLEAN /\ broken \in BOOLEAN
       /\ busy \in [Flags -> Fixtures \cup {NoFixture, "new"}]
       /\ dialog \in [kind : {"none", "settle", "edit", "import"}, of : Fixtures \cup {NoFixture}]
       /\ preview \in [text : Sheets, shown : Sheets]
  BY DEF DeskInit, NoDialog
<1>11. DeskTypeOK
  BY <1>3, <1>5, <1>6, <1>8, <1>9, <1>10 DEF DeskTypeOK, ReadRecords, OrderRecords
<1>12. SavesWhatItShows  BY DEF DeskInit, SavesWhatItShows, Shown
<1> QED  BY <1>11, <1>12

(* The page and the preview keep their types through every step of the     *)
(* season, and show what they save.                                        *)
LEMMA DeskAlways == Spec => [](DeskTypeOK /\ SavesWhatItShows)
<1>1. Init => DeskTypeOK /\ SavesWhatItShows  BY DeskBegins DEF Init
<1>2. DeskTypeOK /\ SavesWhatItShows /\ [Next]_seasonVars => (DeskTypeOK /\ SavesWhatItShows)'
  <2> SUFFICES ASSUME DeskTypeOK, SavesWhatItShows, [Next]_seasonVars
               PROVE  (DeskTypeOK /\ SavesWhatItShows)'
    OBVIOUS
  <2>1. DeskNext \/ UNCHANGED deskVars  BY PartsMove
  <2>2. DeskTypeOK'  BY <2>1, DeskTypeStep
  <2>3. SavesWhatItShows'  BY <2>1, SavesStep
  <2> QED  BY <2>2, <2>3
<1> QED  BY <1>1, <1>2, PTL DEF Spec

(* What an administrator saves is what the page shows: the prices of a row *)
(* shown are those it was read with, unless he typed others, also when a   *)
(* list arrives late over it, and a preview is of the text in the box, for *)
(* any events, filters and number of orders and requests under way         *)
(* (AdminEventsPage.tsx:688, 835-837).                                     *)
THEOREM PageSavesWhatItShows == Spec => []SavesWhatItShows
BY DeskAlways, PTL

-----------------------------------------------------------------------------
(* The achievements *)

\* The thresholds that p's wins, on top of the committed ones, have reached
Reached(p) == {n \in WinsNeeded : won + settler[p].won >= n}

\* A settlement that has won holds the user's row, so that the last of its checks, if it found the
\* definitions, has counted all wins; one that has written the leaderboard row holds that.
AwardInv ==
  /\ \A p \in Settlers :
       /\ settler[p].pc \in {"idle", "checked"} => settler[p].won = 0 /\ ~settler[p].wrote
       /\ settler[p].pc = "written" /\ settler[p].won > 0 /\ settler[p].saw =>
            Reached(p) \subseteq settler[p].awards
  /\ \A p, q \in Settlers : /\ settler[p].wrote /\ settler[q].wrote => p = q
                            /\ settler[p].won > 0 /\ settler[q].won > 0 => p = q

Settlement == [pc : {"idle", "scored", "read", "written", "checked"}, win : BOOLEAN,
               read : Board, own : Board, wrote : BOOLEAN, won : Nat, lost : Nat,
               bonus : [BonusAt -> Nat], awards : SUBSET WinsNeeded,
               defines : BOOLEAN, saw : BOOLEAN]

(* A settlement that is not under way has done nothing.                    *)
LEMMA OutIsOut ==
  /\ Out \in Settlement
  /\ Out.pc = "idle" /\ Out.won = 0 /\ ~Out.wrote
<1>1. NewBoard \in Board  BY DEF NewBoard, Board
<1> QED  BY <1>1 DEF Out, Settlement

(* Counting a result gives a row of the leaderboard.                       *)
LEMMA UpdatedIsBoard ==
  ASSUME NEW b \in Board, NEW win \in BOOLEAN
  PROVE  Updated(b, win) \in Board
BY DEF Updated, Board, Bigger

(* What a step makes of a settlement is one.                               *)
LEMMA ScoresTypeStep ==
  ASSUME ScoresTypeOK, ScoresNext
  PROVE  ScoresTypeOK'
<1> USE DEF ScoresTypeOK
<1>0. \A p \in Settlers : settler[p] \in Settlement  BY DEF Settlement
<1>1. ASSUME NEW p \in Settlers, NEW n \in Settlement, settler' = [settler EXCEPT ![p] = n]
      PROVE  settler' \in [Settlers -> Settlement]
  BY <1>1 DEF Settlement
<1>2. ASSUME NEW p \in Settlers, NEW win \in BOOLEAN, Score(p, win)  PROVE ScoresTypeOK'
  <2> DEFINE w == IF win THEN settler[p].won + 1 ELSE settler[p].won
             l == IF win THEN settler[p].lost ELSE settler[p].lost + 1
             n == [settler[p] EXCEPT !.pc = "scored", !.win = win, !.won = w, !.lost = l]
  <2>0. w \in Nat /\ l \in Nat  BY <1>0 DEF Settlement
  <2>2. settler' = [settler EXCEPT ![p] = n]  BY <1>2 DEF Score
  <2> HIDE DEF w, l
  <2>1. n \in Settlement  BY <1>0, <2>0 DEF Settlement
  <2> HIDE DEF n
  <2>3. settler' \in [Settlers -> Settlement]  BY <2>1, <2>2, <1>1
  <2> QED  BY <2>3, <1>2 DEF Score, Settlement
<1>3. ASSUME NEW p \in Settlers, ReadBoard(p)  PROVE ScoresTypeOK'
  <2> DEFINE n == [settler[p] EXCEPT !.pc = "read",
                                     !.read = IF settler[p].wrote THEN settler[p].own ELSE board]
  <2>1. n \in Settlement  BY <1>0 DEF Settlement
  <2>2. settler' = [settler EXCEPT ![p] = n]  BY <1>3 DEF ReadBoard
  <2> HIDE DEF n
  <2>3. settler' \in [Settlers -> Settlement]  BY <2>1, <2>2, <1>1
  <2> QED  BY <2>3, <1>3 DEF ReadBoard, Settlement
<1>4. ASSUME NEW p \in Settlers, WriteBoard(p)  PROVE ScoresTypeOK'
  <2> DEFINE b == Updated(settler[p].read, settler[p].win)
             c == [s \in BonusAt |-> IF settler[p].win /\ s = b.current THEN settler[p].bonus[s] + 1
                                     ELSE settler[p].bonus[s]]
             n == [settler[p] EXCEPT !.pc = "written", !.own = b, !.wrote = TRUE, !.bonus = c,
                                     !.awards = @ \cup Eligible(p), !.defines = @ \/ ~ensured,
                                     !.saw = Sees(p)]
  <2>1. b \in Board  BY <1>0, UpdatedIsBoard DEF Settlement
  <2> HIDE DEF b
  <2>2. c \in [BonusAt -> Nat]  BY <1>0 DEF Settlement
  <2>3. settler' = [settler EXCEPT ![p] = n]  BY <1>4 DEF WriteBoard, b
  <2> HIDE DEF c
  <2>4. Eligible(p) \in SUBSET WinsNeeded /\ Sees(p) \in BOOLEAN  BY DEF Eligible, Sees
  <2>5. n \in Settlement  BY <1>0, <2>1, <2>2, <2>4 DEF Settlement
  <2> HIDE DEF n
  <2>6. settler' \in [Settlers -> Settlement]  BY <2>3, <2>5, <1>1
  <2> QED  BY <2>6, <1>4 DEF WriteBoard, Settlement
<1>5. ASSUME NEW p \in Settlers, Commit(p)  PROVE ScoresTypeOK'
  <2>1. settler' \in [Settlers -> Settlement]  BY <1>1, <1>5, OutIsOut DEF Commit
  <2> QED  BY <2>1, <1>0, <1>5 DEF Commit, Settlement
<1>6. ASSUME NEW p \in Settlers, Rollback(p)  PROVE ScoresTypeOK'
  <2>1. settler' \in [Settlers -> Settlement]  BY <1>1, <1>6, OutIsOut DEF Rollback
  <2> QED  BY <2>1, <1>6 DEF Rollback, Settlement
<1>7. ASSUME NEW p \in Settlers, ScoreAnother(p) \/ ShowAchievements(p)  PROVE ScoresTypeOK'
  <2>1. PICK pc \in {"written", "checked"} : Ensure(p, pc)
    BY <1>7 DEF ScoreAnother, ShowAchievements
  <2> DEFINE n == [settler[p] EXCEPT !.pc = pc, !.defines = TRUE]
  <2>2. n \in Settlement  BY <1>0 DEF Settlement
  <2>3. settler' = [settler EXCEPT ![p] = n]  BY <2>1 DEF Ensure
  <2> HIDE DEF n
  <2>4. settler' \in [Settlers -> Settlement]  BY <2>2, <2>3, <1>1
  <2> QED  BY <2>1, <2>4 DEF Ensure, Settlement
<1>8. ASSUME NEW p \in Settlers, CheckAndAward(p)  PROVE ScoresTypeOK'
  <2> DEFINE n == [settler[p] EXCEPT !.pc = "checked", !.awards = Eligible(p),
                                     !.defines = ~ensured, !.saw = Sees(p)]
  <2>1. Eligible(p) \in SUBSET WinsNeeded /\ Sees(p) \in BOOLEAN  BY DEF Eligible, Sees
  <2>2. n \in Settlement  BY <1>0, <2>1 DEF Settlement
  <2>3. settler' = [settler EXCEPT ![p] = n]  BY <1>8 DEF CheckAndAward
  <2> HIDE DEF n
  <2>4. settler' \in [Settlers -> Settlement]  BY <2>2, <2>3, <1>1
  <2> QED  BY <2>4, <1>8 DEF CheckAndAward, Settlement
<1>9. CASE Restart
  <2>1. settler' \in [Settlers -> Settlement]  BY <1>9, OutIsOut DEF Restart
  <2> QED  BY <2>1, <1>9 DEF Restart, Settlement
<1> QED  BY <1>2, <1>3, <1>4, <1>5, <1>6, <1>7, <1>8, <1>9 DEF ScoresNext

(* One transaction moves, and nothing is committed.                        *)
LEMMA AwardOne ==
  ASSUME ScoresTypeOK, AwardInv, NEW p \in Settlers, NEW n \in Settlement,
         settler' = [settler EXCEPT ![p] = n], UNCHANGED won,
         n.pc \in {"idle", "checked"} => n.won = 0 /\ ~n.wrote,
         n.wrote => settler[p].wrote \/ RowFree(p),
         n.won > 0 => settler[p].won > 0 \/ UserLocked(p),
         n.pc = "written" /\ n.won > 0 /\ n.saw =>
           {k \in WinsNeeded : won + n.won >= k} \subseteq n.awards
  PROVE  AwardInv'
<1>1. settler'[p] = n /\ \A q \in Settlers \ {p} : settler'[q] = settler[q]
  BY DEF ScoresTypeOK
<1>2. \A q \in Settlers : settler[q].won \in Nat /\ settler'[q].won \in Nat
  BY <1>1 DEF ScoresTypeOK, Settlement
<1>3. ASSUME NEW q \in Settlers
      PROVE  /\ settler'[q].pc \in {"idle", "checked"} => settler'[q].won = 0 /\ ~settler'[q].wrote
             /\ settler'[q].pc = "written" /\ settler'[q].won > 0 /\ settler'[q].saw =>
                  Reached(q)' \subseteq settler'[q].awards
  BY <1>1 DEF AwardInv, Reached
<1>4. ASSUME NEW q \in Settlers \ {p}
      PROVE  /\ ~(settler'[p].wrote /\ settler'[q].wrote)
             /\ ~(settler'[p].won > 0 /\ settler'[q].won > 0)
  <2>1. settler'[q].wrote => ~n.wrote
    BY <1>1, <1>4 DEF AwardInv, RowFree
  <2>2. settler'[q].won > 0 => ~(n.won > 0)
    BY <1>1, <1>2, <1>4 DEF AwardInv, UserLocked
  <2> QED  BY <2>1, <2>2, <1>1
<1>5. ASSUME NEW q \in Settlers, NEW r \in Settlers
      PROVE  /\ settler'[q].wrote /\ settler'[r].wrote => q = r
             /\ settler'[q].won > 0 /\ settler'[r].won > 0 => q = r
  BY <1>1, <1>4 DEF AwardInv
<1> QED  BY <1>3, <1>5 DEF AwardInv

(* Settlements keep out of each other's way by the rows that they hold; a  *)
(* check sees every committed win, whoever has defined the achievements.   *)
LEMMA AwardStep ==
  ASSUME ScoresTypeOK, AwardInv, ScoresNext
  PROVE  AwardInv'
<1>0. \A p \in Settlers : settler[p] \in Settlement  BY DEF ScoresTypeOK, Settlement
<1>1. ASSUME NEW p \in Settlers, NEW win \in BOOLEAN, Score(p, win)  PROVE AwardInv'
  <2> DEFINE w == IF win THEN settler[p].won + 1 ELSE settler[p].won
             l == IF win THEN settler[p].lost ELSE settler[p].lost + 1
             n == [settler[p] EXCEPT !.pc = "scored", !.win = win, !.won = w, !.lost = l]
  <2>1. w \in Nat /\ l \in Nat /\ (w > 0 => settler[p].won > 0 \/ UserLocked(p))
    BY <1>0, <1>1 DEF Settlement, Score
  <2>2. settler' = [settler EXCEPT ![p] = n]  BY <1>1 DEF Score
  <2> HIDE DEF w, l
  <2>3. /\ n \in Settlement /\ n.pc = "scored" /\ n.won = w /\ n.wrote = settler[p].wrote
    BY <1>0, <2>1 DEF Settlement
  <2> HIDE DEF n
  <2> QED  BY <2>1, <2>2, <2>3, <1>1, AwardOne DEF Score
<1>2. ASSUME NEW p \in Settlers, ReadBoard(p)  PROVE AwardInv'
  <2> DEFINE n == [settler[p] EXCEPT !.pc = "read",
                                     !.read = IF settler[p].wrote THEN settler[p].own ELSE board]
  <2>1. n \in Settlement /\ n.pc = "read" /\ n.won = settler[p].won /\ n.wrote = settler[p].wrote
    BY <1>0 DEF Settlement, ScoresTypeOK
  <2>2. settler' = [settler EXCEPT ![p] = n]  BY <1>2 DEF ReadBoard
  <2> HIDE DEF n
  <2> QED  BY <2>1, <2>2, <1>2, AwardOne DEF ReadBoard
<1>3. ASSUME NEW p \in Settlers, WriteBoard(p)  PROVE AwardInv'
  <2>1. PICK b \in Board, c \in [BonusAt -> Nat] :
          settler' = [settler EXCEPT ![p] =
            [settler[p] EXCEPT !.pc = "written", !.own = b, !.wrote = TRUE, !.bonus = c,
                               !.awards = settler[p].awards \cup Eligible(p),
                               !.defines = settler[p].defines \/ ~ensured, !.saw = Sees(p)]]
    <3> DEFINE b == Updated(settler[p].read, settler[p].win)
               c == [s \in BonusAt |-> IF settler[p].win /\ s = b.current
                                       THEN settler[p].bonus[s] + 1 ELSE settler[p].bonus[s]]
    <3>1. b \in Board  BY <1>0, UpdatedIsBoard DEF Settlement
    <3>2. settler' = [settler EXCEPT ![p] =
            [settler[p] EXCEPT !.pc = "written", !.own = b, !.wrote = TRUE, !.bonus = c,
                               !.awards = settler[p].awards \cup Eligible(p),
                               !.defines = settler[p].defines \/ ~ensured, !.saw = Sees(p)]]
      BY <1>3 DEF WriteBoard
    <3> HIDE DEF b
    <3>3. c \in [BonusAt -> Nat]  BY <1>0 DEF Settlement
    <3> QED  BY <3>1, <3>2, <3>3
  <2> DEFINE n == [settler[p] EXCEPT !.pc = "written", !.own = b, !.wrote = TRUE, !.bonus = c,
                                     !.awards = settler[p].awards \cup Eligible(p),
                                     !.defines = settler[p].defines \/ ~ensured, !.saw = Sees(p)]
  <2>2. Eligible(p) \in SUBSET WinsNeeded /\ Sees(p) \in BOOLEAN  BY DEF Eligible, Sees
  <2>3. n \in Settlement  BY <1>0, <2>2 DEF Settlement
  <2>4. /\ n.pc = "written" /\ n.won = settler[p].won /\ n.saw = Sees(p)
        /\ n.awards = settler[p].awards \cup Eligible(p)
    BY <1>0 DEF Settlement
  <2>5. settler' = [settler EXCEPT ![p] = n]  BY <2>1
  <2> HIDE DEF n
  <2>6. n.saw => {k \in WinsNeeded : won + n.won >= k} \subseteq n.awards
    BY <2>4 DEF Eligible
  <2> QED  BY <2>3, <2>4, <2>5, <2>6, <1>3, AwardOne DEF WriteBoard
<1>4. ASSUME NEW p \in Settlers, Rollback(p)  PROVE AwardInv'
  <2>1. settler' = [settler EXCEPT ![p] = Out] /\ UNCHANGED won  BY <1>4 DEF Rollback
  <2>2. ~(Out.won > 0)  BY OutIsOut
  <2> QED  BY <2>1, <2>2, OutIsOut, AwardOne
<1>5. ASSUME NEW p \in Settlers, Commit(p)  PROVE AwardInv'
  <2>1. settler'[p] = Out /\ \A q \in Settlers \ {p} : settler'[q] = settler[q]
    BY <1>5 DEF Commit, ScoresTypeOK
  <2>2. ~(Out.won > 0)  BY OutIsOut
  <2>3. ASSUME NEW q \in Settlers, settler'[q].pc = "written", settler'[q].won > 0, settler'[q].saw
        PROVE  Reached(q)' \subseteq settler'[q].awards
    <3>1. q # p /\ settler'[q] = settler[q]  BY <2>1, <2>2, <2>3
    <3>2. ~(settler[p].won > 0) /\ settler[p].won \in Nat /\ won \in Nat
      BY <1>0, <2>3, <3>1 DEF AwardInv, Settlement, ScoresTypeOK
    <3>3. won' = won  BY <3>2, <1>5 DEF Commit
    <3> QED  BY <2>3, <3>1, <3>3 DEF AwardInv, Reached
  <2> QED  BY <2>1, <2>2, <2>3, OutIsOut DEF AwardInv
<1>6. ASSUME NEW p \in Settlers, ScoreAnother(p)  PROVE AwardInv'
  <2> DEFINE n == [settler[p] EXCEPT !.pc = "written", !.defines = TRUE]
  <2>1. /\ n \in Settlement /\ n.pc = "written" /\ n.won = settler[p].won
        /\ n.wrote = settler[p].wrote /\ n.saw = settler[p].saw /\ n.awards = settler[p].awards
    BY <1>0 DEF Settlement
  <2>2. settler' = [settler EXCEPT ![p] = n] /\ UNCHANGED won
    BY <1>6 DEF ScoreAnother, Ensure
  <2> HIDE DEF n
  <2>3. ASSUME n.won > 0, n.saw
        PROVE  {k \in WinsNeeded : won + n.won >= k} \subseteq n.awards
    <3>1. settler[p].pc = "written"
      BY <1>6, <2>1, <2>3 DEF ScoreAnother, AwardInv
    <3> QED  BY <2>1, <2>3, <3>1 DEF AwardInv, Reached
  <2> QED  BY <2>1, <2>2, <2>3, AwardOne
<1>7. ASSUME NEW p \in Settlers, ShowAchievements(p) \/ CheckAndAward(p)  PROVE AwardInv'
  <2>1. settler[p].pc = "idle" /\ settler[p].won = 0 /\ ~settler[p].wrote
    BY <1>7 DEF AwardInv, ShowAchievements, CheckAndAward
  <2>2. PICK n \in Settlement : /\ settler' = [settler EXCEPT ![p] = n]
                                /\ n.pc = "checked" /\ n.won = 0 /\ ~n.wrote
    <3>1. CASE ShowAchievements(p)
      <4> DEFINE n == [settler[p] EXCEPT !.pc = "checked", !.defines = TRUE]
      <4>1. n \in Settlement /\ n.pc = "checked" /\ n.won = 0 /\ ~n.wrote
        BY <1>0, <2>1 DEF Settlement
      <4>2. settler' = [settler EXCEPT ![p] = n]  BY <3>1 DEF ShowAchievements, Ensure
      <4> HIDE DEF n
      <4> QED  BY <4>1, <4>2
    <3>2. CASE CheckAndAward(p)
      <4> DEFINE n == [settler[p] EXCEPT !.pc = "checked", !.awards = Eligible(p),
                                         !.defines = ~ensured, !.saw = Sees(p)]
      <4>1. Eligible(p) \in SUBSET WinsNeeded /\ Sees(p) \in BOOLEAN  BY DEF Eligible, Sees
      <4>2. n \in Settlement /\ n.pc = "checked" /\ n.won = 0 /\ ~n.wrote
        BY <1>0, <2>1, <4>1 DEF Settlement
      <4>3. settler' = [settler EXCEPT ![p] = n]  BY <3>2 DEF CheckAndAward
      <4> HIDE DEF n
      <4> QED  BY <4>2, <4>3
    <3> QED  BY <1>7, <3>1, <3>2
  <2>3. UNCHANGED won /\ ~(n.won > 0)
    BY <1>7, <2>2 DEF ShowAchievements, Ensure, CheckAndAward
  <2> QED  BY <2>2, <2>3, AwardOne
<1>8. CASE Restart
  <2>1. \A q \in Settlers : settler'[q] = Out  BY <1>8 DEF Restart
  <2>2. ~(Out.won > 0)  BY OutIsOut
  <2> QED  BY <2>1, <2>2, OutIsOut DEF AwardInv
<1> QED  BY <1>1, <1>2, <1>3, <1>4, <1>5, <1>6, <1>7, <1>8 DEF ScoresNext

(* Nobody settles at first.                                                *)
LEMMA AwardInit == Init => ScoresTypeOK /\ AwardInv
<1> SUFFICES ASSUME Init  PROVE ScoresTypeOK /\ AwardInv
  OBVIOUS
<1> USE DEF Init, ScoresInit
<1>1. \A p \in Settlers : settler[p] = Out  OBVIOUS
<1>2. settler \in [Settlers -> Settlement]  BY OutIsOut
<1>3. ScoresTypeOK  BY <1>2 DEF ScoresTypeOK, Settlement, NewBoard, Board
<1>4. AwardInv  BY <1>1, OutIsOut DEF AwardInv
<1> QED  BY <1>3, <1>4

(* Every step of the season keeps both.                                    *)
LEMMA AwardNext == ScoresTypeOK /\ AwardInv /\ [Next]_seasonVars => (ScoresTypeOK /\ AwardInv)'
<1> SUFFICES ASSUME ScoresTypeOK, AwardInv, [Next]_seasonVars
             PROVE  (ScoresTypeOK /\ AwardInv)'
  OBVIOUS
<1>1. CASE ScoresNext  BY <1>1, ScoresTypeStep, AwardStep
<1>2. CASE UNCHANGED scoreVars
  BY <1>2 DEF scoreVars, ScoresTypeOK, AwardInv, Reached
<1> QED  BY <1>1, <1>2, PartsMove

(* A settlement whose win reaches a threshold unlocks its achievement if   *)
(* its last check found the definitions, for any number of transactions    *)
(* that are open at the same time, whichever of them writes the            *)
(* definitions and whatever rolls back or restarts (achievements.ts:157,   *)
(* events.ts:385).                                                         *)
THEOREM WinsAreRewarded == Spec => AwardedByTheWin
<1>1. ScoresTypeOK /\ AwardInv /\ [Next]_seasonVars =>
        [\A p \in Settlers : won' > won /\ settler'[p] # settler[p] /\ settler[p].saw =>
           {n \in WinsNeeded : n <= won'} \subseteq unlocked']_scoreVars
  <2> SUFFICES ASSUME ScoresTypeOK, AwardInv, ScoresNext, NEW p \in Settlers,
                      won' > won, settler'[p] # settler[p], settler[p].saw
               PROVE  {n \in WinsNeeded : n <= won'} \subseteq unlocked'
    BY PartsMove
  <2>1. won' = won => FALSE  BY DEF ScoresTypeOK
  <2>2. PICK q \in Settlers : Commit(q)
    BY <2>1 DEF ScoresNext, Score, ReadBoard, WriteBoard, Rollback, CheckAndAward,
                ScoreAnother, ShowAchievements, Ensure, Restart
  <2>3. q = p  BY <2>2 DEF Commit, ScoresTypeOK
  <2>4. won' = won + settler[p].won /\ settler[p].won \in Nat /\ settler[p].won > 0
        /\ settler[p].pc = "written"
    BY <2>2, <2>3 DEF Commit, ScoresTypeOK, AwardInv
  <2>5. Reached(p) \subseteq settler[p].awards
    BY <2>4 DEF AwardInv
  <2> QED  BY <2>2, <2>3, <2>4, <2>5, ScoresAssumption DEF Commit, Reached, ScoresAssumption
<1> QED  BY <1>1, AwardInit, AwardNext, PTL DEF Spec, AwardedByTheWin

-----------------------------------------------------------------------------
(* The streak bonuses *)

\* w wins pay for b bonuses for s and for the part of a streak of c that is not paid for yet.
Pays(s, w, b, c) == s * b + (IF c < s THEN c ELSE c - s) <= w

(* A win lengthens the streak by one and may complete a bonus; a loss, or  *)
(* more wins than were counted, cost nothing.                              *)
LEMMA PaysStep ==
  ASSUME NEW s \in Nat \ {0}, NEW w \in Nat, NEW b \in Nat, NEW c \in Nat, Pays(s, w, b, c)
  PROVE  /\ Pays(s, w + 1, IF s = c + 1 THEN b + 1 ELSE b, c + 1)
         /\ Pays(s, w, b, 0)
         /\ s * b <= w
<1>1. s * b \in Nat /\ s * (b + 1) = s * b + s  OBVIOUS
<1> DEFINE m == s * b
           m1 == s * (b + 1)
<1>2. m \in Nat /\ m1 = m + s /\ m + (IF c < s THEN c ELSE c - s) <= w  BY <1>1 DEF Pays
<1> HIDE DEF m, m1
<1>3. m <= w /\ m + (IF 0 < s THEN 0 ELSE 0 - s) <= w  BY <1>2
<1>4. CASE s = c + 1
  <2>1. m1 + (IF c + 1 < s THEN c + 1 ELSE c + 1 - s) <= w + 1  BY <1>2, <1>4
  <2> QED  BY <1>3, <1>4, <2>1 DEF Pays, m, m1
<1>5. CASE s # c + 1
  <2>1. m + (IF c + 1 < s THEN c + 1 ELSE c + 1 - s) <= w + 1  BY <1>2, <1>5
  <2> QED  BY <1>3, <1>5, <2>1 DEF Pays, m
<1> QED  BY <1>4, <1>5

Counting(r) == r.pc \in {"scored", "read"} /\ r.win
Counted(r) == IF Counting(r) THEN r.won - 1 ELSE r.won
Streak(r) == IF r.pc = "read" /\ r.win THEN r.read.current ELSE r.own.current

\* What a settlement is about to make of the row is paid for by wins.  Before it has written, it
\* has won what it is counting and given no bonus.
BonusOK(r, w, b) ==
  /\ r.pc = "idle" => ~r.wrote
  /\ r.won = 0 => \A s \in BonusAt : r.bonus[s] = 0
  /\ Counted(r) \in Nat
  /\ ~r.wrote => Counted(r) = 0 /\ \A s \in BonusAt : r.bonus[s] = 0
  /\ r.wrote \/ (r.pc = "read" /\ r.win) =>
       \A s \in BonusAt : Pays(s, w + Counted(r), b[s] + r.bonus[s], Streak(r))

BonusInv ==
  /\ \A s \in BonusAt : Pays(s, won, bonuses[s], board.current)
  /\ \A p \in Settlers : BonusOK(settler[p], won, bonuses)

(* A settlement that is not under way owes nothing.                        *)
LEMMA OutPays == \A w, b : BonusOK(Out, w, b)
<1>1. ~Counting(Out) /\ Counted(Out) = 0 /\ \A s \in BonusAt : Out.bonus[s] = 0
  BY DEF Out, Counting, Counted
<1> QED  BY <1>1, OutIsOut DEF BonusOK

(* One settlement moves, and nothing is committed.                         *)
LEMMA BonusOne ==
  ASSUME ScoresTypeOK, BonusInv, NEW p \in Settlers, NEW n, BonusOK(n, won, bonuses),
         settler' = [settler EXCEPT ![p] = n], UNCHANGED <<won, bonuses, board>>
  PROVE  BonusInv'
<1>1. settler'[p] = n /\ \A q \in Settlers \ {p} : settler'[q] = settler[q]
  BY DEF ScoresTypeOK
<1> QED  BY <1>1 DEF BonusInv

(* A streak is paid for by wins, of which no two are counted at the same   *)
(* time; a settlement that has lost only writes no streak.                 *)
LEMMA BonusStep ==
  ASSUME ScoresTypeOK, AwardInv, BonusInv, ScoresNext
  PROVE  BonusInv'
<1>0. /\ \A p \in Settlers : settler[p] \in Settlement /\ BonusOK(settler[p], won, bonuses)
      /\ won \in Nat /\ bonuses \in [BonusAt -> Nat] /\ board \in Board
      /\ BonusAt \subseteq Nat \ {0}
  BY ScoresAssumption DEF ScoresTypeOK, BonusInv, Settlement, ScoresAssumption
<1>1. ASSUME NEW p \in Settlers, NEW win \in BOOLEAN, Score(p, win)  PROVE BonusInv'
  <2> DEFINE r == settler[p]
             w == IF win THEN r.won + 1 ELSE r.won
             l == IF win THEN r.lost ELSE r.lost + 1
             n == [r EXCEPT !.pc = "scored", !.win = win, !.won = w, !.lost = l]
  <2>1. settler' = [settler EXCEPT ![p] = n]  BY <1>1 DEF Score
  <2>2. r \in Settlement /\ BonusOK(r, won, bonuses) /\ r.pc \in {"idle", "written"}
    BY <1>0, <1>1 DEF Score
  <2>3. r.won \in Nat /\ Counted(r) = r.won /\ Streak(r) = r.own.current
    BY <2>2 DEF Settlement, Counted, Counting, Streak
  <2> HIDE DEF r, l
  <2>4. /\ n.pc = "scored" /\ n.win = win /\ n.won = w /\ n.wrote = r.wrote
        /\ n.bonus = r.bonus /\ n.own = r.own
    BY <2>2 DEF Settlement
  <2> HIDE DEF n
  <2>5. Counted(n) = r.won /\ Streak(n) = r.own.current
    BY <2>3, <2>4 DEF Counted, Counting, Streak
  <2>6. BonusOK(n, won, bonuses)  BY <2>2, <2>3, <2>4, <2>5 DEF BonusOK
  <2> QED  BY <2>1, <2>6, <1>1, BonusOne DEF Score
<1>2. ASSUME NEW p \in Settlers, ReadBoard(p)  PROVE BonusInv'
  <2> DEFINE r == settler[p]
             n == [r EXCEPT !.pc = "read", !.read = IF r.wrote THEN r.own ELSE board]
  <2>1. settler' = [settler EXCEPT ![p] = n]  BY <1>2 DEF ReadBoard
  <2>2. r \in Settlement /\ BonusOK(r, won, bonuses) /\ r.pc = "scored"
    BY <1>0, <1>2 DEF ReadBoard
  <2> HIDE DEF r
  <2>3. /\ n.pc = "read" /\ n.win = r.win /\ n.won = r.won /\ n.wrote = r.wrote
        /\ n.bonus = r.bonus /\ n.own = r.own
        /\ n.read = IF r.wrote THEN r.own ELSE board
    BY <2>2 DEF Settlement
  <2> HIDE DEF n
  <2>4. Counted(n) = Counted(r)  BY <2>2, <2>3 DEF Counted, Counting
  <2>5. Streak(r) = r.own.current  BY <2>2 DEF Streak
  <2>6. r.wrote => Streak(n) = Streak(r)  BY <2>3, <2>5 DEF Streak
  <2>7. ASSUME ~r.wrote, n.win, NEW s \in BonusAt
        PROVE  Pays(s, won + Counted(n), bonuses[s] + n.bonus[s], Streak(n))
    <3>1. Counted(n) = 0 /\ n.bonus[s] = 0  BY <2>2, <2>3, <2>4, <2>7 DEF BonusOK
    <3>2. Streak(n) = board.current  BY <2>3, <2>7 DEF Streak
    <3>3. won + Counted(n) = won /\ bonuses[s] + n.bonus[s] = bonuses[s]  BY <3>1, <1>0
    <3> QED  BY <3>2, <3>3 DEF BonusInv
  <2>8. BonusOK(n, won, bonuses)  BY <2>2, <2>3, <2>4, <2>6, <2>7 DEF BonusOK
  <2> QED  BY <2>1, <2>8, <1>2, BonusOne DEF ReadBoard
<1>3. ASSUME NEW p \in Settlers, WriteBoard(p)  PROVE BonusInv'
  <2> DEFINE r == settler[p]
             b == Updated(r.read, r.win)
             c == [s \in BonusAt |-> IF r.win /\ s = b.current THEN r.bonus[s] + 1 ELSE r.bonus[s]]
             n == [r EXCEPT !.pc = "written", !.own = b, !.wrote = TRUE, !.bonus = c,
                            !.awards = @ \cup Eligible(p), !.defines = @ \/ ~ensured,
                            !.saw = Sees(p)]
  <2>1. settler' = [settler EXCEPT ![p] = n]  BY <1>3 DEF WriteBoard
  <2>2. r \in Settlement /\ BonusOK(r, won, bonuses) /\ r.pc = "read"
    BY <1>0, <1>3 DEF WriteBoard
  <2>3. /\ r.read \in Board /\ r.own \in Board /\ r.bonus \in [BonusAt -> Nat]
        /\ r.won \in Nat /\ r.win \in BOOLEAN /\ r.wrote \in BOOLEAN
    BY <2>2 DEF Settlement
  <2>4. b.current = IF r.win THEN r.read.current + 1 ELSE 0  BY DEF Updated
  <2> HIDE DEF r, b
  <2>5. /\ n.pc = "written" /\ n.win = r.win /\ n.won = r.won /\ n.wrote
        /\ n.bonus = c /\ n.own = b
    BY <2>2 DEF Settlement
  <2> HIDE DEF n
  <2>6. Counted(n) = r.won /\ Streak(n) = b.current  BY <2>5 DEF Counted, Counting, Streak
  <2>7. CASE r.win
    <3>1. Counted(r) = r.won - 1 /\ Counted(r) \in Nat /\ Streak(r) = r.read.current
          /\ r.read.current \in Nat
      BY <2>2, <2>3, <2>7 DEF Counted, Counting, Streak, BonusOK, Board
    <3>2. ASSUME NEW s \in BonusAt
          PROVE  Pays(s, won + Counted(n), bonuses[s] + n.bonus[s], Streak(n))
      <4> DEFINE w == won + Counted(r)
                 k == bonuses[s] + r.bonus[s]
      <4>1. Pays(s, w, k, r.read.current)  BY <2>2, <2>7, <3>1 DEF BonusOK
      <4>2. w \in Nat /\ k \in Nat /\ s \in Nat \ {0} /\ won + Counted(n) = w + 1
        BY <1>0, <2>3, <2>6, <3>1
      <4>3. bonuses[s] + n.bonus[s] = IF s = r.read.current + 1 THEN k + 1 ELSE k
        BY <1>0, <2>3, <2>4, <2>5, <2>7
      <4>4. Streak(n) = r.read.current + 1  BY <2>4, <2>6, <2>7
      <4> HIDE DEF w, k
      <4>5. Pays(s, w + 1, IF s = r.read.current + 1 THEN k + 1 ELSE k, r.read.current + 1)
        BY <4>1, <4>2, <3>1, PaysStep
      <4> QED  BY <4>2, <4>3, <4>4, <4>5
    <3>3. n.won > 0  BY <3>1, <2>3, <2>5
    <3>4. BonusOK(n, won, bonuses)  BY <3>2, <3>3, <2>3, <2>5, <2>6 DEF BonusOK
    <3> QED  BY <3>4, <2>1, <1>3, BonusOne DEF WriteBoard
  <2>8. CASE ~r.win
    <3>1. Counted(r) = r.won /\ Streak(r) = r.own.current /\ Streak(n) = 0
      BY <2>2, <2>4, <2>6, <2>8 DEF Counted, Counting, Streak
    <3>2. c = r.bonus  BY <2>3, <2>8
    <3> HIDE DEF c
    <3>3. ASSUME NEW s \in BonusAt
          PROVE  Pays(s, won + Counted(n), bonuses[s] + n.bonus[s], Streak(n))
      <4> DEFINE w == won + r.won
                 k == bonuses[s] + r.bonus[s]
      <4>0. w \in Nat /\ k \in Nat /\ s \in Nat \ {0} /\ r.own.current \in Nat
            /\ board.current \in Nat
        BY <1>0, <2>3 DEF Board
      <4>1. \E x \in Nat : Pays(s, w, k, x)
        <5>1. CASE r.wrote  BY <5>1, <2>2, <3>1, <4>0 DEF BonusOK
        <5>2. CASE ~r.wrote
          <6>1. r.won = 0 /\ r.bonus[s] = 0  BY <5>2, <2>2, <3>1 DEF BonusOK
          <6>2. w = won /\ k = bonuses[s]  BY <6>1, <1>0
          <6> HIDE DEF w, k
          <6> QED  BY <6>2, <4>0 DEF BonusInv
        <5> QED  BY <5>1, <5>2
      <4> HIDE DEF w, k
      <4>2. Pays(s, w, k, 0)  BY <4>0, <4>1, PaysStep
      <4> QED  BY <4>2, <2>5, <2>6, <3>1, <3>2 DEF w, k
    <3>4. r.won = 0 => \A s \in BonusAt : r.bonus[s] = 0  BY <2>2 DEF BonusOK
    <3>5. n.bonus = r.bonus  BY <3>2, <2>5 DEF c
    <3>6. BonusOK(n, won, bonuses)  BY <3>3, <3>4, <3>5, <2>3, <2>5, <2>6 DEF BonusOK
    <3> QED  BY <3>6, <2>1, <1>3, BonusOne DEF WriteBoard
  <2> QED  BY <2>3, <2>7, <2>8
<1>4. ASSUME NEW p \in Settlers, Rollback(p)  PROVE BonusInv'
  BY <1>4, OutPays, BonusOne DEF Rollback
<1>5. ASSUME NEW p \in Settlers, Commit(p)  PROVE BonusInv'
  <2> DEFINE r == settler[p]
  <2>1. /\ r.pc \in {"written", "checked"} /\ r \in Settlement /\ BonusOK(r, won, bonuses)
        /\ r.won \in Nat /\ r.bonus \in [BonusAt -> Nat]
    BY <1>0, <1>5 DEF Commit, Settlement
  <2>2. Counted(r) = r.won /\ Streak(r) = r.own.current
    BY <2>1 DEF Counted, Counting, Streak
  <2>3. /\ board' = (IF r.wrote THEN r.own ELSE board) /\ won' = won + r.won
        /\ bonuses' = [s \in BonusAt |-> bonuses[s] + r.bonus[s]]
        /\ settler'[p] = Out /\ \A q \in Settlers \ {p} : settler'[q] = settler[q]
    BY <1>5 DEF Commit, ScoresTypeOK
  <2> HIDE DEF r
  <2>4. r.won = 0 => won' = won /\ bonuses' = bonuses
    <3> SUFFICES ASSUME r.won = 0  PROVE won' = won /\ bonuses' = bonuses
      OBVIOUS
    <3>1. \A s \in BonusAt : r.bonus[s] = 0  BY <2>1 DEF BonusOK
    <3>2. \A s \in BonusAt : bonuses[s] + r.bonus[s] = bonuses[s]  BY <3>1, <1>0
    <3>3. bonuses' = bonuses  BY <3>2, <2>3, <1>0
    <3> QED  BY <3>3, <2>3, <1>0
  <2>5. \A s \in BonusAt : Pays(s, won', bonuses'[s], board'.current)
    <3>1. CASE r.wrote  BY <3>1, <2>1, <2>2, <2>3 DEF BonusOK
    <3>2. CASE ~r.wrote
      <4>1. r.won = 0  BY <3>2, <2>1, <2>2 DEF BonusOK
      <4> QED  BY <4>1, <3>2, <2>3, <2>4 DEF BonusInv
    <3> QED  BY <3>1, <3>2
  <2>6. ASSUME NEW q \in Settlers \ {p}  PROVE BonusOK(settler'[q], won', bonuses')
    <3> DEFINE o == settler[q]
    <3>1. BonusOK(o, won, bonuses) /\ o \in Settlement  BY <1>0
    <3>2. CASE r.won = 0  BY <3>2, <3>1, <2>3, <2>4
    <3>3. CASE r.won > 0
      <4>1. r.wrote  BY <3>3, <2>1, <2>2 DEF BonusOK
      <4>2. ~o.wrote /\ ~(o.won > 0)  BY <3>3, <4>1, <2>1 DEF AwardInv, r
      <4>3. ~(o.pc = "read" /\ o.win)
        BY <3>1, <4>2 DEF BonusOK, Counted, Counting, Settlement
      <4> HIDE DEF o
      <4>4. BonusOK(o, won', bonuses')  BY <3>1, <4>2, <4>3 DEF BonusOK
      <4> QED  BY <4>4, <2>3 DEF o
    <3> QED  BY <3>2, <3>3, <2>1
  <2>7. BonusOK(settler'[p], won', bonuses')  BY <2>3, OutPays
  <2> QED  BY <2>5, <2>6, <2>7 DEF BonusInv
<1>6. ASSUME NEW p \in Settlers, ScoreAnother(p) \/ ShowAchievements(p)  PROVE BonusInv'
  <2>1. PICK pc \in {"written", "checked"} : Ensure(p, pc)
    BY <1>6 DEF ScoreAnother, ShowAchievements
  <2> DEFINE r == settler[p]
             n == [r EXCEPT !.pc = pc, !.defines = TRUE]
  <2>2. settler' = [settler EXCEPT ![p] = n]  BY <2>1 DEF Ensure
  <2>3. r \in Settlement /\ BonusOK(r, won, bonuses) /\ r.pc \in {"idle", "written"}
    BY <1>0, <1>6 DEF ScoreAnother, ShowAchievements
  <2> HIDE DEF r
  <2>4. /\ n.pc = pc /\ n.won = r.won /\ n.wrote = r.wrote /\ n.bonus = r.bonus /\ n.own = r.own
    BY <2>3 DEF Settlement
  <2> HIDE DEF n
  <2>5. /\ Counted(n) = r.won /\ Streak(n) = r.own.current
        /\ Counted(r) = r.won /\ Streak(r) = r.own.current
    BY <2>3, <2>4 DEF Counted, Counting, Streak
  <2>6. BonusOK(n, won, bonuses)  BY <2>3, <2>4, <2>5 DEF BonusOK
  <2> QED  BY <2>1, <2>2, <2>6, BonusOne DEF Ensure
<1>7. ASSUME NEW p \in Settlers, CheckAndAward(p)  PROVE BonusInv'
  <2> DEFINE r == settler[p]
             n == [r EXCEPT !.pc = "checked", !.awards = Eligible(p),
                            !.defines = ~ensured, !.saw = Sees(p)]
  <2>1. settler' = [settler EXCEPT ![p] = n]  BY <1>7 DEF CheckAndAward
  <2>2. r \in Settlement /\ BonusOK(r, won, bonuses) /\ r.pc = "idle"
    BY <1>0, <1>7 DEF CheckAndAward
  <2> HIDE DEF r
  <2>3. /\ n.pc = "checked" /\ n.won = r.won /\ n.wrote = r.wrote /\ n.bonus = r.bonus
        /\ n.own = r.own
    BY <2>2 DEF Settlement
  <2> HIDE DEF n
  <2>4. Counted(n) = r.won /\ Counted(r) = r.won  BY <2>2, <2>3 DEF Counted, Counting
  <2>5. BonusOK(n, won, bonuses)  BY <2>2, <2>3, <2>4 DEF BonusOK
  <2> QED  BY <2>1, <2>5, <1>7, BonusOne DEF CheckAndAward
<1>8. CASE Restart
  <2>1. \A p \in Settlers : settler'[p] = Out  BY <1>8 DEF Restart
  <2> QED  BY <2>1, <1>8, OutPays DEF Restart, BonusInv
<1> QED  BY <1>1, <1>2, <1>3, <1>4, <1>5, <1>6, <1>7, <1>8 DEF ScoresNext

(* A bonus for s wins in a row needs s wins that no other such bonus used, *)
(* whatever the streaks that pay one, and however many settlements read    *)
(* the row that another is about to write (leaderboard.ts:117, 252-263).   *)
THEOREM NoBonusWithoutWins == Spec => []BonusesNeedWins
<1>1. Init => ScoresTypeOK /\ AwardInv /\ BonusInv
  <2> SUFFICES ASSUME Init  PROVE BonusInv
    BY AwardInit
  <2>1. \A p \in Settlers : settler[p] = Out  BY DEF Init, ScoresInit
  <2>2. \A s \in BonusAt : Pays(s, won, bonuses[s], board.current)
    BY ScoresAssumption DEF Init, ScoresInit, NewBoard, Pays, ScoresAssumption
  <2> QED  BY <2>1, <2>2, OutPays DEF BonusInv
<1>2. ScoresTypeOK /\ AwardInv /\ BonusInv /\ [Next]_seasonVars =>
        (ScoresTypeOK /\ AwardInv /\ BonusInv)'
  <2> SUFFICES ASSUME ScoresTypeOK, AwardInv, BonusInv, [Next]_seasonVars  PROVE BonusInv'
    BY AwardNext
  <2>1. CASE ScoresNext  BY <2>1, BonusStep
  <2>2. CASE UNCHANGED scoreVars  BY <2>2 DEF scoreVars, BonusInv
  <2> QED  BY <2>1, <2>2, PartsMove
<1>3. ScoresTypeOK /\ BonusInv => BonusesNeedWins
  <2> SUFFICES ASSUME ScoresTypeOK, BonusInv, NEW s \in BonusAt
               PROVE  s * bonuses[s] <= won
    BY DEF BonusesNeedWins
  <2>1. /\ s \in Nat \ {0} /\ won \in Nat /\ bonuses[s] \in Nat /\ board.current \in Nat
        /\ Pays(s, won, bonuses[s], board.current)
    BY ScoresAssumption DEF ScoresAssumption, ScoresTypeOK, Board, BonusInv
  <2> QED  BY <2>1, PaysStep
<1> QED  BY <1>1, <1>2, <1>3, PTL DEF Spec

-----------------------------------------------------------------------------
(* The season *)

(* Feed, page, scores and league keep their types, whatever the numbers of *)
(* rows, orders, settlements, members and recalculations, and however the  *)
(* four are interleaved.                                                   *)
THEOREM SeasonTypeCorrect == Spec => []SeasonTypeOK
<1>1. AgeInv /\ FlagsOK => OddsFeedTypeOK
  <2> SUFFICES ASSUME AgeInv, FlagsOK  PROVE OddsFeedTypeOK
    OBVIOUS
  <2>1. row \in [Rows -> RowRecords]  BY DEF AgeInv, RowAgeOK
  <2>2. proc \in [Procs -> ProcRecords]  BY DEF AgeInv, ProcAgeOK
  <2>3. cache \in CacheRecords  BY DEF AgeInv, CacheAgeOK
  <2> QED
    BY <2>1, <2>2, <2>3 DEF OddsFeedTypeOK, FlagsOK, RowRecords, ProcRecords, CacheRecords
<1>2. LeagueInv /\ StandingInv => LeaguesTypeOK
  <2> SUFFICES ASSUME LeagueInv, StandingInv  PROVE LeaguesTypeOK
    OBVIOUS
  <2>1. count \in [Counts -> CountRecords]  BY DEF StandingInv, CountInv, CountOK
  <2>2. standing \in [Members -> StandingRecords]  BY DEF StandingInv
  <2> QED
    BY <2>1, <2>2
    DEF LeagueInv, LeagueShape, LeaguesTypeOK, Roles, Ops, CountRecords, StandingRecords
<1>3. Spec => [](ScoresTypeOK /\ AwardInv)  BY AwardInit, AwardNext, PTL DEF Spec
<1>4. Spec => []LeaguesTypeOK  BY <1>2, StandingsAlways, PTL
<1>5. Spec => []OddsFeedTypeOK  BY <1>1, FeedAlways, PTL
<1>6. OddsFeedTypeOK /\ DeskTypeOK /\ ScoresTypeOK /\ LeaguesTypeOK => SeasonTypeOK
  BY DEF SeasonTypeOK
<1> QED  BY <1>3, <1>4, <1>5, <1>6, DeskAlways, PTL
=============================================================================

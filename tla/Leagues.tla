------------------------------ MODULE Leagues ------------------------------
(***************************************************************************)
(* A private league (services/leagues.ts), its members and its standings   *)
(* (leagueStandings.ts).                                                   *)
(*                                                                         *)
(* Joining, transferring, kicking and new invite codes lock the row of the *)
(* league first; leaving, changing and deleting it read without a lock     *)
(* what they decide by.  The standings are computed in a transaction of    *)
(* their own from memberships and results read one after another, and two  *)
(* of them meet only on the rows that both write.                          *)
(***************************************************************************)
EXTENDS Integers, FiniteSets

CONSTANTS
  Members,     \* users, ordered as by "userId" ASC
  NoMember,
  Requests,    \* requests about the league in progress
  Counts,      \* recalculations in progress, of requests, settlements and the daily one
  MaxMembers,
  MaxEarned    \* bound: points a user earns

ASSUME LeaguesAssumption ==
  /\ Members \subseteq Nat /\ IsFiniteSet(Members) /\ NoMember \notin Members \cup Requests
  /\ MaxMembers \in Nat \ {0} /\ MaxEarned \in Nat

VARIABLES
  league,      \* the row of League
  holder,      \* the request that holds its lock, if any
  membership,  \* LeagueMembership
  earned,      \* points won by each user since the beginning of the week
  standing,    \* the rows of LeagueStanding, of the week and of all time
  request,
  count

leagueVars == <<league, holder, membership, earned, standing, request, count>>

NoStanding == [there |-> FALSE, week |-> 0, all |-> 0, weekRank |-> 0, allRank |-> 0]
NoRequest == [op |-> "idle", user |-> NoMember, target |-> NoMember]
NoCount == [pc |-> "idle", of |-> {}, since |-> [u \in Members |-> 0],
            week |-> [u \in Members |-> 0], all |-> [u \in Members |-> 0], gone |-> {}]

LeaguesTypeOK ==
  /\ league \in [status : {"NONE", "OPEN", "CLOSED", "DELETED"}, owner : Members \cup {NoMember}]
  /\ holder \in Requests \cup {NoMember}
  /\ membership \in [Members -> [role : {"NONE", "OWNER", "MEMBER"}, active : BOOLEAN, since : Nat]]
  /\ earned \in [Members -> Nat]
  /\ standing \in [Members -> [there : BOOLEAN, week : Nat, all : Nat, weekRank : Nat, allRank : Nat]]
  /\ request \in [Requests -> [op : {"idle", "join", "leave", "transfer", "update", "delete"},
                               user : Members \cup {NoMember}, target : Members \cup {NoMember}]]
  /\ count \in [Counts -> [pc : {"idle", "members", "week", "all"}, of : SUBSET Members,
                           since : [Members -> Nat], week : [Members -> Nat], all : [Members -> Nat],
                           gone : SUBSET Members]]

Exists == league.status \in {"OPEN", "CLOSED"}
Active == {u \in Members : membership[u].active}
Listed == {u \in Members : standing[u].there}

LeaguesInit ==
  /\ league = [status |-> "NONE", owner |-> NoMember]
  /\ holder = NoMember
  /\ membership = [u \in Members |-> [role |-> "NONE", active |-> FALSE, since |-> 0]]
  /\ earned = [u \in Members |-> 0]
  /\ standing = [u \in Members |-> NoStanding]
  /\ request = [q \in Requests |-> NoRequest]
  /\ count = [c \in Counts |-> NoCount]

Unlocked == holder = NoMember

Accept(q, op, u, v) ==
  /\ request[q].op = "idle"
  /\ request' = [request EXCEPT ![q] = [op |-> op, user |-> u, target |-> v]]

Is(q, op) == request[q].op = op
Answer(q) == request' = [request EXCEPT ![q] = NoRequest]
Quiet == UNCHANGED <<earned, standing, count>>

-----------------------------------------------------------------------------
(* leagues.ts *)

Create(u) ==
  /\ league.status = "NONE"
  /\ league' = [status |-> "OPEN", owner |-> u]
  /\ membership' = [membership EXCEPT ![u] = [role |-> "OWNER", active |-> TRUE, since |-> earned[u]]]
  /\ UNCHANGED <<holder, request>> /\ Quiet

\* Mutant: the members are counted before the league is locked.
MayJoinUnlocked(u) ==
  league.status = "OPEN" /\ u \notin Active /\ Cardinality(Active) < MaxMembers

MayJoin(u) ==
  Unlocked /\ league.status = "OPEN" /\ u \notin Active /\ Cardinality(Active) < MaxMembers

\* The league is locked, then everything counted.
JoinCheck(q, u) ==
  /\ MayJoin(u)
  /\ Accept(q, "join", u, NoMember)
  /\ holder' = q
  /\ UNCHANGED <<league, membership>> /\ Quiet

\* Mutant: the results of joining count from one too late.
JoinWriteLater(q) ==
  /\ Is(q, "join")
  /\ LET u == request[q].user
     IN  membership' = [membership EXCEPT ![u] = [role |-> "MEMBER", active |-> TRUE, since |-> earned[u] + 1]]
  /\ holder' = NoMember
  /\ Answer(q) /\ UNCHANGED league /\ Quiet

\* A new row, or the old one again
JoinWrite(q) ==
  /\ Is(q, "join")
  /\ LET u == request[q].user
     IN  membership' = [membership EXCEPT ![u] = [role |-> "MEMBER", active |-> TRUE, since |-> earned[u]]]
  /\ holder' = NoMember
  /\ Answer(q) /\ UNCHANGED league /\ Quiet

LeaveCheck(q, u) ==
  /\ u \in Active /\ membership[u].role # "OWNER"
  /\ Accept(q, "leave", u, NoMember)
  /\ UNCHANGED <<league, holder, membership>> /\ Quiet

\* By the membership's id, whatever it has become
LeaveWrite(q) ==
  /\ Is(q, "leave")
  /\ membership' = [membership EXCEPT ![request[q].user].active = FALSE]
  /\ Answer(q) /\ UNCHANGED <<league, holder>> /\ Quiet

\* Mutant: the owner is checked before the league is locked.
MayTransferUnlocked(u, v) == Exists /\ league.owner = u /\ v # u /\ v \in Active

MayTransfer(u, v) == Unlocked /\ Exists /\ league.owner = u /\ v # u /\ v \in Active

TransferCheck(q, u, v) ==
  /\ MayTransfer(u, v)
  /\ Accept(q, "transfer", u, v)
  /\ holder' = q
  /\ UNCHANGED <<league, membership>> /\ Quiet

TransferWrite(q) ==
  /\ Is(q, "transfer")
  /\ league' = [league EXCEPT !.owner = request[q].target]
  /\ membership' = [membership EXCEPT ![request[q].target].role = "OWNER",
                                      ![request[q].user].role = "MEMBER"]
  /\ holder' = NoMember
  /\ Answer(q) /\ Quiet

\* Nothing the lock does not cover can change between its check and its write.
Kick(u, v) ==
  /\ Unlocked /\ Exists /\ league.owner = u
  /\ v # u /\ v \in Active /\ membership[v].role # "OWNER"
  /\ membership' = [membership EXCEPT ![v].active = FALSE]
  /\ UNCHANGED <<league, holder, request>> /\ Quiet

\* update and delete: the owner is looked up, then the row is written.
OwnerCheck(q, op, u) ==
  /\ Exists /\ league.owner = u
  /\ Accept(q, op, u, NoMember)
  /\ UNCHANGED <<league, holder, membership>> /\ Quiet

UpdateWrite(q) ==
  /\ Is(q, "update") /\ Unlocked
  /\ \E status \in {"OPEN", "CLOSED"} :
       league' = IF Exists THEN [league EXCEPT !.status = status] ELSE league
  /\ Answer(q) /\ UNCHANGED <<holder, membership>> /\ Quiet

\* onDelete: Cascade.  It waits for the rows that a recalculation has deleted.
DeleteWrite(q) ==
  /\ Is(q, "delete") /\ Unlocked
  /\ \A c \in Counts : count[c].gone = {}
  /\ league' = [status |-> "DELETED", owner |-> NoMember]
  /\ membership' = [u \in Members |-> [role |-> "NONE", active |-> FALSE, since |-> 0]]
  /\ standing' = [u \in Members |-> NoStanding]
  /\ Answer(q) /\ UNCHANGED <<holder, earned, count>>

\* A request fails before it commits.
Drop(q) ==
  /\ request[q].op # "idle"
  /\ Answer(q)
  /\ holder' = IF holder = q THEN NoMember ELSE holder
  /\ UNCHANGED <<league, membership>> /\ Quiet

-----------------------------------------------------------------------------
(* leagueStandings.ts *)

\* A prediction won
Earn(u) ==
  /\ earned[u] < MaxEarned
  /\ earned' = [earned EXCEPT ![u] = @ + 1]
  /\ UNCHANGED <<league, holder, membership, standing, request, count>>

OnlyCounts == UNCHANGED <<league, holder, membership, earned, request>>

ReadMembers(c) ==
  /\ count[c].pc = "idle" /\ Exists
  /\ count' = [count EXCEPT ![c].pc = "members", ![c].of = Active,
                            ![c].since = [u \in Members |-> IF u \in Active THEN membership[u].since ELSE 0]]
  /\ OnlyCounts /\ UNCHANGED standing

\* No other recalculation has deleted a row that this one is about to write.
RowsFree(c, rows) == \A d \in Counts \ {c} : count[d].gone \cap rows = {}

\* The others' rows are deleted; then, member by member, the week's results are read, ...
DeleteOthers(c) ==
  /\ count[c].pc = "members"
  /\ RowsFree(c, Listed \ count[c].of)
  /\ count' = [count EXCEPT
       ![c].pc = "week", ![c].gone = Listed \ count[c].of,
       ![c].week = [u \in Members |-> IF u \in count[c].of THEN earned[u] - count[c].since[u] ELSE 0]]
  /\ OnlyCounts /\ UNCHANGED standing

\* ... and those of all time.
ReadAllTime(c) ==
  /\ count[c].pc = "week"
  /\ count' = [count EXCEPT
       ![c].pc = "all",
       ![c].all = [u \in Members |-> IF u \in count[c].of THEN earned[u] - count[c].since[u] ELSE 0]]
  /\ OnlyCounts /\ UNCHANGED standing

\* ORDER BY points DESC, "userId" ASC
Rank(points, rows, u) ==
  1 + Cardinality({v \in rows : points[v] > points[u] \/ (points[v] = points[u] /\ v < u)})

\* Mutant: the rows of the members alone are ranked.
RankedMembers(table, of) ==
  LET week == [u \in Members |-> table[u].week]
      all == [u \in Members |-> table[u].all]
  IN  [u \in Members |-> IF u \in of THEN [table[u] EXCEPT !.weekRank = Rank(week, of, u),
                                                           !.allRank = Rank(all, of, u)]
                         ELSE table[u]]

Ranked(table, of) ==
  LET week == [u \in Members |-> table[u].week]
      all == [u \in Members |-> table[u].all]
      rows == {u \in Members : table[u].there}
  IN  [u \in Members |-> IF u \in rows THEN [table[u] EXCEPT !.weekRank = Rank(week, rows, u),
                                                             !.allRank = Rank(all, rows, u)]
                         ELSE NoStanding]

Upserted(c) ==
  [u \in Members |->
     IF u \in count[c].of
     THEN [standing[u] EXCEPT !.there = TRUE, !.week = count[c].week[u], !.all = count[c].all[u]]
     ELSE IF u \in count[c].gone THEN NoStanding ELSE standing[u]]

EndCount(c) == count' = [count EXCEPT ![c] = NoCount]

\* The upserts, which need the league to be there, and the ranking of whatever rows there are
WriteStandings(c) ==
  /\ count[c].pc = "all" /\ count[c].of # {} /\ Exists /\ Unlocked
  /\ RowsFree(c, Members)
  /\ standing' = Ranked(Upserted(c), count[c].of)
  /\ EndCount(c) /\ OnlyCounts

\* Nobody is a member: the rows are deleted, and that is all.
DeleteAll(c) ==
  /\ count[c].pc = "week" /\ count[c].of = {}
  /\ standing' = [u \in Members |-> IF u \in count[c].gone THEN NoStanding ELSE standing[u]]
  /\ EndCount(c) /\ OnlyCounts

\* A deadlock, a league that has gone, a statement that fails: logged, or answered with a 500
CountFails(c) ==
  /\ count[c].pc # "idle"
  /\ EndCount(c) /\ OnlyCounts /\ UNCHANGED standing

LeaguesNext ==
  \/ \E u \in Members : Create(u) \/ Earn(u)
  \/ \E u, v \in Members : Kick(u, v)
  \/ \E q \in Requests :
       \/ \E u \in Members : JoinCheck(q, u) \/ LeaveCheck(q, u) \/ OwnerCheck(q, "update", u)
                             \/ OwnerCheck(q, "delete", u)
       \/ \E u, v \in Members : TransferCheck(q, u, v)
       \/ JoinWrite(q) \/ LeaveWrite(q) \/ TransferWrite(q) \/ UpdateWrite(q) \/ DeleteWrite(q) \/ Drop(q)
  \/ \E c \in Counts :
       \/ ReadMembers(c) \/ DeleteOthers(c) \/ ReadAllTime(c) \/ WriteStandings(c) \/ DeleteAll(c)
       \/ CountFails(c)
=============================================================================

------------------------------- MODULE Season -------------------------------
(***************************************************************************)
(* A season around the bets: the odds that price them, the page on which   *)
(* administrators manage the events, the scores and achievements that      *)
(* settlements leave, and a league of the users.  The four run around one  *)
(* database and share no state that their properties are about: a won      *)
(* prediction is a step of scores and league each on its own, a restart of *)
(* the process one of feed and scores, and the page counts the writings of *)
(* odds where the feed knows their age.                                    *)
(***************************************************************************)
EXTENDS OddsFeed, Desk, Scores, Leagues

seasonVars == <<feedVars, deskVars, scoreVars, leagueVars>>

SeasonTypeOK == OddsFeedTypeOK /\ DeskTypeOK /\ ScoresTypeOK /\ LeaguesTypeOK

Init == FeedInit /\ DeskInit /\ ScoresInit /\ LeaguesInit

Next == \/ FeedNext /\ UNCHANGED <<deskVars, scoreVars, leagueVars>>
        \/ DeskNext /\ UNCHANGED <<feedVars, scoreVars, leagueVars>>
        \/ ScoresNext /\ UNCHANGED <<feedVars, deskVars, leagueVars>>
        \/ LeaguesNext /\ UNCHANGED <<feedVars, deskVars, scoreVars>>

Spec == Init /\ [][Next]_seasonVars

-----------------------------------------------------------------------------

(* Two imports never both create the provider's event, though each looks   *)
(* for it, and creates it, in two statements without a transaction, and    *)
(* nothing makes externalEventId unique (eventImport.ts:47, 95-146).       *)
ImportedOnce == Cardinality(Present) <= 1

(* How old a price can be when a bet is made at it: the cache hands it on  *)
(* for TTL, and stored odds that pass for fresh were as old as that when   *)
(* they were stamped, so the threshold that predictions.ts:537-552 applies *)
(* to the stamp bounds the age only together with TTL and the time that a  *)
(* request and a write take.                                               *)
PriceAge ==
  /\ \A p \in Bettors : proc[p].pc = "have" => proc[p].age < TTL + 2 * MaxLag
  /\ \A r \in Rows : Fresh(r) => row[r].age < Threshold + TTL + 2 * MaxLag

-----------------------------------------------------------------------------

(* What an administrator saves is what the page shows.  The prices of an   *)
(* event are sent all together, those that nobody typed too: they are the  *)
(* ones in the row, also when a list arrives over rows that are shown      *)
(* already, as a late one does (AdminEventsPage.tsx:835-837).  The events  *)
(* imported are those of the preview, and the preview is of the text that  *)
(* is in the box (AdminEventsPage.tsx:688).                                *)
SavesWhatItShows ==
  /\ \A e \in Fixtures : Shown(e) => draft[e].odds = table[e].odds
  /\ preview.shown \in {NoSheet, preview.text}

-----------------------------------------------------------------------------

(* A streak bonus for s wins is paid at most once for every s predictions  *)
(* won, in whichever order settlements commit, though a loss that commits  *)
(* late may undo the leaderboard's count of a win (leaderboard.ts:117,     *)
(* 252-263).                                                               *)
BonusesNeedWins == \A s \in BonusAt : s * bonuses[s] <= won

(* The settlement whose win reaches a threshold unlocks its achievement,   *)
(* though two of them may run at the same time and neither sees what the   *)
(* other has not committed (events.ts:385).  Its last check must have      *)
(* found the definitions: one that trusts definitionsEnsured while the     *)
(* transaction that set it is open finds none and awards nothing, which is *)
(* left to the next check (achievements.ts:157-187).                       *)
AwardedByTheWin ==
  [][\A p \in Settlers : won' > won /\ settler'[p] # settler[p] /\ settler[p].saw =>
       {n \in WinsNeeded : n <= won'} \subseteq unlocked']_scoreVars

-----------------------------------------------------------------------------

(* Nobody but the league's owner has the role of owner, also when          *)
(* transfers, departures and new arrivals cross (leagues.ts:389-405).      *)
OneOwner == \A u \in Members : membership[u].role = "OWNER" => league.owner = u

(* A league never has more members than it takes, however many join at the *)
(* same time (leagues.ts:280).                                             *)
NeverOverfull == Cardinality(Active) <= MaxMembers

InOrder(points, rank) ==
  /\ {rank[u] : u \in Listed} = 1 .. Cardinality(Listed)
  /\ \A u, v \in Listed : points[u] > points[v] => rank[u] < rank[v]

(* What a reader of the standings sees is ranked from 1 without a gap and  *)
(* by the points shown, and nobody has more points this week than of all   *)
(* time, also after recalculations that worked from different memberships  *)
(* and results (leagueStandings.ts:132-153, 194-199).                      *)
StandingsInOrder ==
  /\ InOrder([u \in Members |-> standing[u].week], [u \in Members |-> standing[u].weekRank])
  /\ InOrder([u \in Members |-> standing[u].all], [u \in Members |-> standing[u].allRank])
  /\ \A u \in Members : standing[u].week <= standing[u].all
=============================================================================

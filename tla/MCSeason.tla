------------------------------ MODULE MCSeason ------------------------------
EXTENDS Season, TLC

CONSTANTS r1, r2

\* The parts share no state: each is explored with the others as they begin.
OnePartMoves ==
  \/ DeskInit /\ ScoresInit /\ LeaguesInit
     /\ FeedNext /\ UNCHANGED <<deskVars, scoreVars, leagueVars>>
  \/ FeedInit /\ ScoresInit /\ LeaguesInit
     /\ DeskNext /\ UNCHANGED <<feedVars, scoreVars, leagueVars>>
  \/ FeedInit /\ DeskInit /\ LeaguesInit
     /\ ScoresNext /\ UNCHANGED <<feedVars, deskVars, leagueVars>>
  \/ FeedInit /\ DeskInit /\ ScoresInit
     /\ LeaguesNext /\ UNCHANGED <<feedVars, deskVars, scoreVars>>

MCSpec == Init /\ [][OnePartMoves]_seasonVars

CountsStill == \A c \in Counts : count[c].pc = "idle"
InProgress ==
  Cardinality({q \in Requests : request[q].op # "idle"})
    + Cardinality({c \in Counts : count[c].pc # "idle"})

\* A settled event is not followed further, one whose odds are written is not cancelled, odds that
\* a sync can no longer write are forgotten, and sheets are imported while nothing writes odds.
DeskBounds ==
  /\ \A e \in Fixtures : /\ fixture[e].status # "SETTLED"
                         /\ fixture[e].status = "CANCELLED" => fixture[e].odds = 0 /\ priced = {}
                         /\ e \in priced => fixture[e].odds < MaxWrites
  /\ dialog.kind = "import" \/ (\E o \in Orders : order[o].kind = "import") =>
       priced = {} /\ \A e \in Fixtures : fixture[e].odds = 0

\* Rows are used in their order.  In the league at most two transactions are open at a time and
\* only its first user earns points; standings are explored while the second is its owner, and a
\* recalculation races those requests that its writes depend on (a member kicked stands for one
\* who leaves).
Bounds ==
  /\ DeskBounds
  /\ row[r2].there => row[r1].there
  /\ InProgress <= 2
  /\ \A u \in Members \ {1} : earned[u] = 0
  /\ Listed # {} \/ ~CountsStill =>
       /\ league.status # "CLOSED" /\ league.owner \in {2, NoMember}
       /\ \A q \in Requests : request[q].op \in {"idle", "join", "delete"}

MCSymmetry == Permutations(Requests) \cup Permutations(Counts)
=============================================================================

------------------------------- MODULE MCPages -------------------------------
EXTENDS Pages

CONSTANT anna

Plain(s) == ~s.acca /\ s.stake = 0 /\ s.accaStake = 0

\* Only one user types stakes, combines and has tokens: none, or enough for two bets.
SlipBounds ==
  /\ \A k \in Keys \ {anna} : Plain(saved[k])
  /\ shown # anna => Plain(slip) /\ purse = 0
  /\ purse \in {0, MaxTokens}

\* One ledger has rows, and so many of them are listed.
HistoryBounds ==
  /\ \E t \in Tabs : posted[t] = 0
  /\ \A t \in Tabs : list[t].offset <= 6 /\ Len(list[t].rows) <= 7

\* An address is typed while the application opens; typed later it leads to the same state.
\* At most two loads are under way.  Places that no guard passes the query of have none.  Queries
\* within queries are followed before there is a header or a form, except by the form that has one.
ShellBounds ==
  /\ opening' => opening
  /\ Cardinality(header.loads') <= 2
  /\ Len(at') > 1 => Head(at') \in {"login", "adminLogin", "page", "admin"}
  /\ Len(at') > 2 \/ Len(form'.dest) > 1 =>
       header' = Bareheaded /\ ~leaving' /\ (form'.state # "idle" => at' = at)

\* The parts share no state: each is explored with the others as they begin.
OnePartMoves ==
  \/ /\ HistoryInit /\ PicksInit /\ ShellInit /\ ToastsInit
     /\ SlipNext /\ SlipBounds'
     /\ UNCHANGED <<historyVars, picksVars, shellVars, toastVars>>
  \/ /\ SlipInit /\ PicksInit /\ ShellInit /\ ToastsInit
     /\ HistoryNext /\ HistoryBounds'
     /\ UNCHANGED <<slipVars, picksVars, shellVars, toastVars>>
  \/ /\ SlipInit /\ HistoryInit /\ ShellInit /\ ToastsInit
     /\ PicksNext
     /\ UNCHANGED <<slipVars, historyVars, shellVars, toastVars>>
  \/ /\ SlipInit /\ HistoryInit /\ PicksInit /\ ToastsInit
     /\ ShellNext /\ ShellBounds
     /\ UNCHANGED <<slipVars, historyVars, picksVars, toastVars>>
  \/ /\ SlipInit /\ HistoryInit /\ PicksInit /\ ShellInit
     /\ ToastsNext
     /\ UNCHANGED <<slipVars, historyVars, picksVars, shellVars>>

MCSpec == Init /\ [][OnePartMoves]_pagesVars
=============================================================================

------------------------------- MODULE Scores -------------------------------
(***************************************************************************)
(* One user's score while settlements of different events commit at the    *)
(* same time: the all-time row of the leaderboard and the streak bonuses   *)
(* (services/leaderboard.ts), and the achievements (achievements.ts).      *)
(*                                                                         *)
(* A settlement is one transaction over the event's predictions.  A won    *)
(* prediction posts points first, which locks the user's row until the     *)
(* end; a lost one locks nothing before it writes the leaderboard row.     *)
(* Every row of the leaderboard is read, computed and written whole.       *)
(*                                                                         *)
(* The definitions of the achievements are written by whichever            *)
(* transaction needs them first, of this user or of another.  It sets a    *)
(* flag of the process before it commits; until it does, everybody else    *)
(* trusts the flag and finds no definitions.                               *)
(***************************************************************************)
EXTENDS Integers, FiniteSets

CONSTANTS
  Settlers,    \* transactions in progress: settlements, and those about achievements alone
  BonusAt,     \* streaks that streakBonusFor pays
  WinsNeeded,  \* thresholds of the achievements for wins
  PerEvent,    \* bound: the user's predictions on one event
  MaxScored    \* bound: predictions the user makes

ASSUME ScoresAssumption ==
  /\ BonusAt \subseteq Nat \ {0} /\ WinsNeeded \subseteq Nat \ {0}
  /\ PerEvent \in Nat /\ MaxScored \in Nat

VARIABLES
  board,      \* the committed row
  won, lost,  \* the user's predictions, as committed
  bonuses,    \* bonuses[s]: bonuses posted for a streak of s
  unlocked,   \* UserAchievement
  defined,    \* the rows of Achievement are there
  ensured,    \* definitionsEnsured, in the process
  settler     \* the transactions, with what they have written; saw: whether the last check of
              \* this user's achievements found the definitions

scoreVars == <<board, won, lost, bonuses, unlocked, defined, ensured, settler>>

Board == [wins : Nat, losses : Nat, current : Nat, longest : Nat]
NewBoard == [wins |-> 0, losses |-> 0, current |-> 0, longest |-> 0]
Out == [pc |-> "idle", win |-> FALSE, read |-> NewBoard, own |-> NewBoard, wrote |-> FALSE,
        won |-> 0, lost |-> 0, bonus |-> [s \in BonusAt |-> 0], awards |-> {}, defines |-> FALSE,
        saw |-> FALSE]

ScoresTypeOK ==
  /\ board \in Board /\ won \in Nat /\ lost \in Nat
  /\ bonuses \in [BonusAt -> Nat]
  /\ unlocked \subseteq WinsNeeded
  /\ defined \in BOOLEAN /\ ensured \in BOOLEAN
  /\ settler \in [Settlers -> [pc : {"idle", "scored", "read", "written", "checked"}, win : BOOLEAN,
                               read : Board, own : Board, wrote : BOOLEAN, won : Nat, lost : Nat,
                               bonus : [BonusAt -> Nat], awards : SUBSET WinsNeeded,
                               defines : BOOLEAN, saw : BOOLEAN]]

ScoresInit ==
  /\ board = NewBoard /\ won = 0 /\ lost = 0
  /\ bonuses = [s \in BonusAt |-> 0]
  /\ unlocked = {}
  /\ defined \in BOOLEAN
  /\ ensured = FALSE
  /\ settler = [p \in Settlers |-> Out]

Bigger(a, b) == IF a >= b THEN a ELSE b

-----------------------------------------------------------------------------
(* A settlement *)

\* Mutant: a credit of points takes no lock.
UserUnlocked(p) == TRUE

\* The row lock of PointsLedgerService.credit, held to the end of the transaction
UserLocked(p) == \A q \in Settlers \ {p} : settler[q].won = 0

RowFree(p) == \A q \in Settlers \ {p} : ~settler[q].wrote

Scored(p) == settler[p].won + settler[p].lost

\* updateMany marks the prediction; a win is credited before anything is read.
Score(p, win) ==
  /\ settler[p].pc \in {"idle", "written"}
  /\ Scored(p) < PerEvent
  /\ won + lost < MaxScored
  /\ win => UserLocked(p)
  /\ settler' = [settler EXCEPT ![p].pc = "scored", ![p].win = win,
                                ![p].won = IF win THEN @ + 1 ELSE @,
                                ![p].lost = IF win THEN @ ELSE @ + 1]
  /\ UNCHANGED <<board, won, lost, bonuses, unlocked, defined, ensured>>

\* Its own row, or what is committed
ReadBoard(p) ==
  /\ settler[p].pc = "scored"
  /\ settler' = [settler EXCEPT ![p].pc = "read",
                                ![p].read = IF settler[p].wrote THEN settler[p].own ELSE board]
  /\ UNCHANGED <<board, won, lost, bonuses, unlocked, defined, ensured>>

Updated(b, win) ==
  [wins |-> IF win THEN b.wins + 1 ELSE b.wins, losses |-> IF win THEN b.losses ELSE b.losses + 1,
   current |-> IF win THEN b.current + 1 ELSE 0,
   longest |-> Bigger(b.longest, IF win THEN b.current + 1 ELSE 0)]

\* The rows of Achievement that a transaction finds are committed, or its own; it writes them
\* unless the flag says that they are there.
Sees(p) == defined \/ settler[p].defines \/ ~ensured

\* Mutant: the wins are counted before the prediction is marked.
EligibleBefore(p) ==
  {n \in WinsNeeded : won >= n /\ Sees(p)}

\* checkAndAward sees the committed wins and its transaction's.
Eligible(p) == {n \in WinsNeeded : won + settler[p].won >= n /\ Sees(p)}

\* The upsert, which waits for the row, the bonus, and the achievements; definitionsEnsured is
\* set before the definitions are committed.
WriteBoard(p) ==
  /\ settler[p].pc = "read"
  /\ RowFree(p)
  /\ LET b == Updated(settler[p].read, settler[p].win)
     IN  settler' = [settler EXCEPT
           ![p].pc = "written", ![p].own = b, ![p].wrote = TRUE,
           ![p].bonus = [s \in BonusAt |-> IF settler[p].win /\ s = b.current THEN @[s] + 1 ELSE @[s]],
           ![p].awards = @ \cup Eligible(p),
           ![p].defines = @ \/ ~ensured,
           ![p].saw = Sees(p)]
  /\ ensured' = TRUE
  /\ UNCHANGED <<board, won, lost, bonuses, unlocked, defined>>

Commit(p) ==
  /\ settler[p].pc \in {"written", "checked"}
  /\ board' = IF settler[p].wrote THEN settler[p].own ELSE board
  /\ won' = won + settler[p].won
  /\ lost' = lost + settler[p].lost
  /\ bonuses' = [s \in BonusAt |-> bonuses[s] + settler[p].bonus[s]]
  /\ unlocked' = unlocked \cup settler[p].awards
  /\ defined' = (defined \/ settler[p].defines)
  /\ settler' = [settler EXCEPT ![p] = Out]
  /\ UNCHANGED ensured

\* A statement fails: definitionsEnsured keeps its value.
Rollback(p) ==
  /\ settler[p].pc # "idle"
  /\ settler' = [settler EXCEPT ![p] = Out]
  /\ UNCHANGED <<board, won, lost, bonuses, unlocked, defined, ensured>>

-----------------------------------------------------------------------------

\* ensureDefinitions, which does nothing once the flag is set
Ensure(p, pc) ==
  /\ ~ensured /\ ensured' = TRUE
  /\ settler' = [settler EXCEPT ![p].pc = pc, ![p].defines = TRUE]
  /\ UNCHANGED <<board, won, lost, bonuses, unlocked, defined>>

\* The same settlement scores somebody else's prediction.
ScoreAnother(p) == settler[p].pc \in {"idle", "written"} /\ Ensure(p, "written")

\* The lists ensure the definitions too.
ShowAchievements(p) == settler[p].pc = "idle" /\ Ensure(p, "checked")

\* After a prediction, a cashout or a redemption, in a transaction of its own
\* (routes/predictions.ts, routes/rewards.ts)
CheckAndAward(p) ==
  /\ settler[p].pc = "idle"
  /\ settler' = [settler EXCEPT ![p].pc = "checked", ![p].awards = Eligible(p),
                                ![p].defines = ~ensured, ![p].saw = Sees(p)]
  /\ ensured' = TRUE
  /\ UNCHANGED <<board, won, lost, bonuses, unlocked, defined>>

Restart ==
  /\ ensured' = FALSE
  /\ settler' = [p \in Settlers |-> Out]
  /\ UNCHANGED <<board, won, lost, bonuses, unlocked, defined>>

ScoresNext ==
  \/ \E p \in Settlers :
       \/ \E win \in BOOLEAN : Score(p, win)
       \/ ReadBoard(p) \/ WriteBoard(p) \/ ScoreAnother(p) \/ Commit(p) \/ Rollback(p)
       \/ CheckAndAward(p) \/ ShowAchievements(p)
  \/ Restart
=============================================================================

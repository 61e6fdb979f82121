----------------------------- MODULE MCBetting -----------------------------
EXTENDS BettingProperties, FiniteSetsExt, TLC

MCNorm == [n \in Names |-> CASE n \in {"home", "Home"} -> 1 [] n = "away" -> 2 [] OTHER -> 3]

MCOutcomeLists == {{"home", "away"}, {"Home", "away"}}

MCCap == 40

\* floor(stake * min(product of the odds, cap)), odds in units of 1/Scale
MCCombinedPayout(s, odds) ==
  LET n == Cardinality(DOMAIN odds)
      product == FoldSet(LAMBDA e, acc : acc * odds[e], 1, DOMAIN odds)
      capped == IF product > MCCap * Scale^n THEN MCCap * Scale^n ELSE product
  IN  (s * capped) \div Scale^n

\* Where Preds is empty a place request can never commit, and with one outcome list and one
\* kickoff an update writes what is there: neither is worth its states.
NoIdleRequests == \A h \in Handlers : req'[h].op \notin {"place", "update"}

\* The outcomes of an event are interchangeable where no two are spelt alike: a leg may as well
\* back the first.
LegsBackHome ==
  \A h \in Handlers : req'[h].op = "accumulate" =>
    \A e \in LegsChosen(req'[h].legs) : req'[h].legs[e].name = "home"

MCSymmetry == Permutations(Handlers) \cup Permutations(Preds) \cup Permutations(Users)
MCDebtSymmetry == MCSymmetry \cup Permutations(Events)
MCAccaSymmetry == Permutations(Handlers) \cup Permutations(Events)
============================================================================

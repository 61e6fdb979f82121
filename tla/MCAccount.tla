----------------------------- MODULE MCAccount -----------------------------
EXTENDS Account, TLC

CONSTANTS r1, r2, reset1, reset2, verify1, verify2

\* The limit of the first reward is raised, lowered, set and removed; the second never has one.
MCLimits == [r \in Rewards |-> IF r = r1 THEN {1, 2, None} ELSE {None}]

HolderAtRest(u) == balance[u] = Signup /\ allowance[u] = NoRow
Asked == {request[v].op : v \in Visitors}

\* The three share no state: each is explored with the others as they begin.
OnePartMoves ==
  \/ AllowanceInit /\ CredentialsInit /\ ShopNext /\ UNCHANGED <<tokenVars, credentialVars>>
  \/ ShopInit /\ CredentialsInit /\ TokensNext /\ UNCHANGED <<shopVars, credentialVars>>
  \/ ShopInit /\ AllowanceInit /\ CredentialsNext /\ UNCHANGED <<shopVars, tokenVars>>

MCSpec == Init /\ [][OnePartMoves]_accountVars

\* Tokens move for one user at a time.  Links are used in their order, and those of one kind with
\* the requests that they depend on.
Bounds ==
  /\ \E u \in Holders : \A v \in Holders \ {u} : HolderAtRest(v)
  /\ link[reset2] # Unsent => link[reset1] # Unsent
  /\ link[verify2] # Unsent => link[verify1] # Unsent
  /\ \/ /\ \A l \in ResetLinks : link[l] = Unsent
        /\ Asked \subseteq {"none", "resend", "verify", "profile"}
     \/ /\ link[verify2] = Unsent /\ ~link[verify1].expired
        /\ Asked \subseteq {"none", "resend", "forgot", "reset", "change"}

MCSymmetry == Permutations(Customers) \cup Permutations(Desks) \cup Permutations(Redemptions) \cup Permutations(Visitors)
============================================================================

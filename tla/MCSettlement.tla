---------------------------- MODULE MCSettlement ----------------------------
EXTENDS Settlement, TLC

CONSTANTS e1, e2, football, tennis

MCStartsAt == (e1 :> 1) @@ (e2 :> 2)
MCSportOf == (e1 :> football) @@ (e2 :> tennis)
=============================================================================

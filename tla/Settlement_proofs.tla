-------------------------- MODULE Settlement_proofs --------------------------
(***************************************************************************)
(* The state of the settlement worker is well typed, for any finite or     *)
(* infinite number of events and sports: in particular whatever it asks    *)
(* the provider for, and keeps the answer to, is about one sport.          *)
(***************************************************************************)
EXTENDS Settlement, FiniteSetTheorems, TLAPS

Workers ==
  [pc : {"idle", "locked", "cancel", "cleaned", "delete", "deleted", "poll"},
   todo : SUBSET Events, due : SUBSET Events]

(* The events of one sport that the worker has still to ask for are a      *)
(* batch of the cache.                                                     *)
LEMMA OneSport ==
  ASSUME NEW s, NEW mine \in SUBSET Events, mine # {}, \A e \in mine : SportOf[e] = s
  PROVE  mine \in Batches
<1>1. {SportOf[e] : e \in mine} = {s}
  OBVIOUS
<1>2. Cardinality({s}) = 1
  BY FS_Singleton
<1>3. Cardinality({SportOf[e] : e \in mine}) = 1
  BY <1>1, <1>2, Zenon
<1> QED
  BY <1>3 DEF Batches

(* A step of the worker that leaves events, cache and faults goes on with  *)
(* events.                                                                 *)
LEMMA GoesOn ==
  ASSUME SettlementTypeOK, NEW w \in Workers, worker' = w,
         UNCHANGED <<now, eventVars, result, cache>>, faults' = faults \/ Fault
  PROVE  SettlementTypeOK'
<1>1. faults' \in 0 .. MaxFaults
  BY SettlementAssumption DEF SettlementTypeOK, Fault
<1> QED
  BY <1>1 DEF SettlementTypeOK, Workers, eventVars

(* An event is finished today.                                             *)
LEMMA FinishTyped ==
  ASSUME SettlementTypeOK, NEW e \in Events, NEW s \in {"SETTLED", "CANCELLED"}, Finish(e, s)
  PROVE  /\ status' \in [Events -> {"none", "OPEN", "LOCKED", "SETTLED", "CANCELLED", "gone"}]
         /\ bets' \in [Events -> BOOLEAN]
         /\ finished' \in [Events -> 0 .. MaxNow]
BY DEF SettlementTypeOK, Finish

(* Everybody but the worker keeps the types.                               *)
LEMMA OthersTyped ==
  ASSUME SettlementTypeOK,
         \/ Crash \/ Tick
         \/ \E ids \in Batches : Expire(ids)
         \/ \E e \in Events :
              Create(e) \/ Bet(e) \/ Complete(e) \/ AdminFinish(e) \/ AdminUncancel(e)
  PROVE  SettlementTypeOK'
<1>0. MaxNow \in Nat /\ MaxFaults \in Nat /\ now \in 0 .. MaxNow /\ faults \in 0 .. MaxFaults
        /\ 0 \in 0 .. MaxNow
  BY SettlementAssumption DEF SettlementTypeOK
<1>1. CASE Crash
  <2>1. faults' \in 0 .. MaxFaults
    BY <1>0, <1>1 DEF Crash, Fault
  <2> QED
    BY <1>1, <2>1 DEF SettlementTypeOK, Crash, Idle, eventVars
<1>2. CASE Tick
  <2>1. now' \in 0 .. MaxNow
    BY <1>0, <1>2 DEF Tick
  <2> QED
    BY <1>2, <2>1 DEF SettlementTypeOK, Tick, eventVars
<1>3. ASSUME NEW ids \in Batches, Expire(ids)
      PROVE  SettlementTypeOK'
  BY <1>3 DEF SettlementTypeOK, Expire, eventVars
<1>4. ASSUME NEW e \in Events, Create(e) \/ Bet(e) \/ Complete(e) \/ AdminUncancel(e)
      PROVE  SettlementTypeOK'
  <2>1. CASE Create(e)
    BY <2>1 DEF SettlementTypeOK, Create
  <2>2. CASE Bet(e)
    BY <2>2 DEF SettlementTypeOK, Bet
  <2>3. CASE Complete(e)
    BY <2>3 DEF SettlementTypeOK, Complete, eventVars
  <2>4. CASE AdminUncancel(e)
    BY <1>0, <2>4 DEF SettlementTypeOK, AdminUncancel
  <2> QED
    BY <1>4, <2>1, <2>2, <2>3, <2>4
<1>5. ASSUME NEW e \in Events, AdminFinish(e)
      PROVE  SettlementTypeOK'
  BY <1>5, FinishTyped DEF SettlementTypeOK, AdminFinish
<1> QED
  BY <1>1, <1>2, <1>3, <1>4, <1>5

(* Every step of a run keeps the types.                                    *)
LEMMA RunTyped ==
  ASSUME SettlementTypeOK, Run \/ Abort
  PROVE  SettlementTypeOK'
<1>0. /\ worker.todo \subseteq Events /\ worker.due \subseteq Events /\ worker \in Workers
      /\ Idle \in Workers /\ 0 \in 0 .. MaxNow
      /\ \A pc \in {"idle", "locked", "cancel", "cleaned", "delete", "deleted", "poll"},
            todo \in SUBSET Events, due \in SUBSET Events :
           [pc |-> pc, todo |-> todo, due |-> due] \in Workers
  BY SettlementAssumption DEF SettlementTypeOK, Workers, Idle
<1>1. CASE Begin
  BY <1>1 DEF SettlementTypeOK, Begin, Go
<1>2. CASE ReadStale
  BY <1>0, <1>2, GoesOn DEF ReadStale, Go
<1>3. CASE CancelStale
  <2>1. ASSUME NEW e \in worker.todo, Finish(e, "CANCELLED"), Go("cancel", worker.todo \ {e}, {}),
               UNCHANGED <<now, result, cache, faults>>
        PROVE  SettlementTypeOK'
    <3>1. worker' \in Workers
      BY <1>0, <2>1 DEF Go
    <3>2. e \in Events
      BY <1>0
    <3> QED
      BY <2>1, <3>1, <3>2, FinishTyped DEF SettlementTypeOK, Workers
  <2>2. ASSUME NEW e \in worker.todo, Go("cancel", worker.todo \ {e}, {}),
               UNCHANGED <<eventVars, now, result, cache, faults>>
        PROVE  SettlementTypeOK'
    BY <1>0, <2>2, GoesOn DEF Go
  <2>3. ASSUME Go("cleaned", {}, {}), UNCHANGED <<eventVars, now, result, cache, faults>>
        PROVE  SettlementTypeOK'
    BY <1>0, <2>3, GoesOn DEF Go
  <2> QED
    BY <1>3, <2>1, <2>2, <2>3 DEF CancelStale
<1>4. CASE ReadOld
  BY <1>0, <1>4, GoesOn DEF ReadOld, Go
<1>5. CASE DeleteOld
  <2>1. worker' \in Workers
    BY <1>0, <1>5 DEF DeleteOld, Go
  <2>2. /\ status' \in [Events -> {"none", "OPEN", "LOCKED", "SETTLED", "CANCELLED", "gone"}]
        /\ bets' \in [Events -> BOOLEAN]
        /\ finished' \in [Events -> 0 .. MaxNow]
    BY <1>0, <1>5 DEF SettlementTypeOK, DeleteOld
  <2> QED
    BY <1>5, <2>1, <2>2 DEF SettlementTypeOK, Workers, DeleteOld
<1>6. CASE Poll
  <2> DEFINE batch == Newest({e \in Events : Eligible(e)})
  <2>1. batch \subseteq Events
    BY DEF Newest
  <2>2. worker' = Idle \/ Go("poll", batch, {})
    BY <1>6 DEF Poll
  <2> HIDE DEF batch
  <2>3. worker' \in Workers
    BY <1>0, <2>1, <2>2 DEF Go
  <2> QED
    BY <1>6, <2>3, GoesOn DEF Poll
<1>7. ASSUME NEW s \in Sports, Fetch(s)
      PROVE  SettlementTypeOK'
  <2> DEFINE mine == {e \in worker.todo : SportOf[e] = s}
  <2>1. mine \subseteq Events /\ mine # {} /\ \A e \in mine : SportOf[e] = s
    BY <1>0, <1>7 DEF Fetch
  <2>2. mine \in Batches
    BY <2>1, OneSport
  <2>3. [ids |-> mine, done |-> Completed(mine)] \in Entry
    <3>1. Completed(mine) \subseteq Events
      BY <2>1 DEF Completed
    <3> HIDE DEF mine
    <3> QED
      BY <2>2, <3>1 DEF Entry
  <2>4. \A done : {e \in mine \cap done : result[e] = "named"} \in SUBSET Events
    BY <2>1
  <2>5. \E due \in SUBSET Events : Go("poll", worker.todo \ mine, due)
    BY <1>7, <2>4 DEF Fetch
  <2>6. worker' \in Workers
    BY <1>0, <2>5 DEF Go
  <2>7. cache' = cache \/ cache' = cache \cup {[ids |-> mine, done |-> Completed(mine)]}
    BY <1>7 DEF Fetch
  <2>8. cache' \subseteq Entry
    BY <2>3, <2>7 DEF SettlementTypeOK
  <2>9. faults' \in 0 .. MaxFaults
    <3>1. faults' = faults \/ Fault
      BY <1>7 DEF Fetch
    <3> QED
      BY <3>1, SettlementAssumption DEF SettlementTypeOK, Fault
  <2> QED
    BY <1>7, <2>6, <2>8, <2>9 DEF SettlementTypeOK, Workers, Fetch, eventVars
<1>8. CASE SettleNext
  <2>1. PICK e \in worker.due :
          /\ Go("poll", worker.todo, worker.due \ {e})
          /\ \/ Finish(e, "SETTLED") /\ UNCHANGED faults
             \/ Fault /\ UNCHANGED eventVars
             \/ UNCHANGED <<eventVars, faults>>
    BY <1>8 DEF SettleNext
  <2>2. worker' \in Workers /\ e \in Events
    BY <1>0, <2>1 DEF Go
  <2>3. CASE Finish(e, "SETTLED") /\ UNCHANGED faults
    BY <1>8, <2>2, <2>3, FinishTyped DEF SettlementTypeOK, Workers, SettleNext
  <2>4. CASE UNCHANGED eventVars /\ (Fault \/ UNCHANGED faults)
    BY <1>8, <2>2, <2>4, GoesOn DEF SettleNext
  <2> QED
    BY <2>1, <2>3, <2>4
<1>9. CASE End \/ Abort
  BY <1>0, <1>9, GoesOn DEF End, Abort
<1> QED
  BY <1>1, <1>2, <1>3, <1>4, <1>5, <1>6, <1>7, <1>8, <1>9 DEF Run

(* SettlementTypeOK for all values of the constants: the worker asks for,  *)
(* and caches, the scores of events of one sport at a time, whatever fails *)
(* or stops a run (settlementWorker.ts:49-199).                            *)
THEOREM WorkerTypesHold == Spec => []SettlementTypeOK
<1>1. Init => SettlementTypeOK
  BY SettlementAssumption DEF Init, SettlementTypeOK, Idle
<1>2. SettlementTypeOK /\ [Next]_vars => SettlementTypeOK'
  <2> SUFFICES ASSUME SettlementTypeOK, [Next]_vars PROVE SettlementTypeOK'
    OBVIOUS
  <2>1. CASE UNCHANGED vars
    BY <2>1 DEF SettlementTypeOK, vars
  <2>2. CASE Next
    BY <2>2, OthersTyped, RunTyped DEF Next
  <2> QED
    BY <2>1, <2>2
<1> QED
  BY <1>1, <1>2, PTL DEF Spec
=============================================================================

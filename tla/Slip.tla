-------------------------------- MODULE Slip --------------------------------
(***************************************************************************)
(* The bet slip of one browser tab and the users who sign in there         *)
(* (frontend/src/context/BetSlipContext.tsx, AuthContext.tsx).  A slip is  *)
(* React state that two effects load from, and write to, the key of the    *)
(* user shown.  React runs them after the render that made them due and    *)
(* before it renders the next change; the page may be left in between.     *)
(***************************************************************************)
EXTENDS Naturals, FiniteSets

CONSTANTS
  Punters,    \* the users who sign in here
  Nobody,     \* nobody is signed in: the key that ends in "anonymous"
  Unloaded,   \* no key: nothing was loaded since the page opened
  Matches,    \* the events on offer
  Picks,      \* the identities of selections
  Combined,   \* the accumulator among the bets of a submission
  MaxTokens   \* a bound on the balance the page has seen

ASSUME SlipAssumption ==
  /\ Nobody \notin Punters /\ Unloaded \notin Punters \cup {Nobody}
  /\ Combined \notin Picks
  /\ MaxTokens \in Nat

VARIABLES
  token,      \* whose access token the API client holds
  shown,      \* the user of AuthContext
  restoring,  \* isLoading of AuthContext
  asked,      \* whose profile an unanswered getMe asks for, or Nobody
  purse,      \* user.tokenBalance, as last seen
  slip,       \* the state of BetSlipProvider
  hydrated,   \* hydratedStorageKey
  unsaved,    \* the persisting effect is due
  saved,      \* localStorage
  submission  \* submitSlip under way: its phase, the bets unanswered, whether one failed

slipVars ==
  <<token, shown, restoring, asked, purse, slip, hydrated, unsaved, saved, submission>>

Keys == Punters \cup {Nobody}

\* A selection, and by whom it was made: the code does not keep that.
Selection == [id : Picks, match : Matches, single : BOOLEAN, by : Keys]

\* Stakes are one token or missing.
Slip == [picks : SUBSET Selection, acca : BOOLEAN, stake : {0, 1}, accaStake : {0, 1}]

EmptySlip == [picks |-> {}, acca |-> FALSE, stake |-> 0, accaStake |-> 0]

NotSubmitting == [phase |-> "idle", waiting |-> {}, failed |-> FALSE]

SlipTypeOK ==
  /\ token \in Keys /\ shown \in Keys /\ asked \in Keys
  /\ restoring \in BOOLEAN /\ unsaved \in BOOLEAN
  /\ purse \in 0 .. MaxTokens
  /\ slip \in Slip
  /\ hydrated \in Keys \cup {Unloaded}
  /\ saved \in [Keys -> Slip]
  /\ submission \in [phase : {"idle", "placing", "placed"},
                     waiting : SUBSET (Picks \cup {Combined}), failed : BOOLEAN]

SlipInit ==
  /\ token = Nobody /\ shown = Nobody /\ asked = Nobody /\ restoring = FALSE
  /\ purse = 0
  /\ slip = EmptySlip /\ hydrated = Unloaded /\ unsaved = FALSE
  /\ saved = [k \in Keys |-> EmptySlip]
  /\ submission = NotSubmitting

-----------------------------------------------------------------------------
(* Effects *)

EffectsDue == hydrated # shown \/ unsaved

\* Mutant: the slip is written whether or not it was loaded for the user shown.
PersistedAlways == [saved EXCEPT ![shown] = slip]

\* What the persisting effect leaves in storage: nothing while the slip is another key's.
Persisted ==
  IF hydrated = shown THEN [saved EXCEPT ![shown] = slip] ELSE saved

\* After a change of user the loading effect runs first; both work from the render before it.
RunEffects ==
  /\ EffectsDue
  /\ saved' = Persisted
  /\ IF hydrated # shown
       THEN slip' = saved[shown] /\ hydrated' = shown /\ unsaved' = TRUE
       ELSE unsaved' = FALSE /\ UNCHANGED <<slip, hydrated>>
  /\ UNCHANGED <<token, shown, restoring, asked, purse, submission>>

-----------------------------------------------------------------------------
(* The selections.  All pages add with replaceExistingForEvent; the slip   *)
(* itself is rendered for a user who is signed in and has selections.      *)

Change(s) ==
  /\ slip' = s /\ unsaved' = TRUE
  /\ UNCHANGED <<token, shown, restoring, asked, purse, hydrated, saved, submission>>

InUse == {p.id : p \in UNION {saved[k].picks : k \in Keys} \cup slip.picks}
           \cup submission.waiting

\* An identity not in use stands for the new selection.
Fresh == CHOOSE id \in Picks : id \notin InUse

AddSelection(match) ==
  /\ ~ (Picks \subseteq InUse) /\ ~restoring
  /\ Change([slip EXCEPT !.picks =
       {p \in @ : p.match # match}
         \cup {[id |-> Fresh, match |-> match, single |-> TRUE, by |-> shown]}])

Rendered == shown # Nobody /\ slip.picks # {}

RemoveSelection(p) == Rendered /\ Change([slip EXCEPT !.picks = @ \ {p}])

\* The stakes stay.
Cleared == [slip EXCEPT !.picks = {}, !.acca = FALSE]

ClearSlip == Rendered /\ Change(Cleared)

ToggleSingle(p) ==
  Rendered /\ Change([slip EXCEPT !.picks = (@ \ {p}) \cup {[p EXCEPT !.single = ~@]}])

Singles == {p \in slip.picks : p.single}

\* The check box is disabled for a single selection, and stays ticked when others are removed.
ToggleAccumulator ==
  Rendered /\ Cardinality(slip.picks) >= 2 /\ Change([slip EXCEPT !.acca = ~@])

CanPlaceAccumulator ==
  /\ Cardinality(slip.picks) >= 2
  /\ \A p, q \in slip.picks : p.match = q.match => p = q

PlacesAccumulator == slip.acca /\ CanPlaceAccumulator

SetSingleStake(n) == Rendered /\ Singles # {} /\ Change([slip EXCEPT !.stake = n])

SetAccumulatorStake(n) ==
  Rendered /\ PlacesAccumulator /\ Change([slip EXCEPT !.accaStake = n])

-----------------------------------------------------------------------------
(* submitSlip *)

TotalCost ==
  Cardinality(Singles) * slip.stake + (IF PlacesAccumulator THEN slip.accaStake ELSE 0)

CanSubmit ==
  /\ Rendered
  /\ submission.phase = "idle"
  /\ TotalCost > 0 /\ TotalCost <= purse
  /\ Singles # {} => slip.stake > 0
  /\ PlacesAccumulator => slip.accaStake > 0

SubmitSlip ==
  /\ CanSubmit
  /\ submission' =
       [phase |-> "placing", failed |-> FALSE,
        waiting |-> {p.id : p \in Singles} \cup (IF PlacesAccumulator THEN {Combined} ELSE {})]
  /\ UNCHANGED <<token, shown, restoring, asked, purse, slip, hydrated, unsaved, saved>>

\* A bet is placed or refused.
BetAnswered(bet, failed) ==
  /\ submission.phase = "placing" /\ bet \in submission.waiting
  /\ submission' = [submission EXCEPT !.waiting = @ \ {bet}, !.failed = @ \/ failed]
  /\ UNCHANGED <<token, shown, restoring, asked, purse, slip, hydrated, unsaved, saved>>

\* The slip is cleared only if every bet was placed, whatever it holds by now.
AllAnswered ==
  /\ submission.phase = "placing" /\ submission.waiting = {}
  /\ token # Nobody /\ asked = Nobody
  /\ submission' = [submission EXCEPT !.phase = "placed"]
  /\ IF submission.failed THEN UNCHANGED <<slip, unsaved>>
     ELSE slip' = Cleared /\ unsaved' = TRUE
  /\ asked' = token
  /\ UNCHANGED <<token, shown, restoring, purse, hydrated, saved>>

\* refreshUser has ended.
SubmissionEnds ==
  /\ submission.phase = "placed" /\ asked = Nobody
  /\ submission' = NotSubmitting
  /\ UNCHANGED <<token, shown, restoring, asked, purse, slip, hydrated, unsaved, saved>>

-----------------------------------------------------------------------------
(* AuthContext *)

Show(user) == shown' = user /\ UNCHANGED <<slip, hydrated, unsaved, saved, submission>>

Login(user, tokens) ==
  /\ shown = Nobody /\ ~restoring
  /\ token' = user /\ purse' = tokens /\ Show(user)
  /\ UNCHANGED <<restoring, asked>>

Logout ==
  /\ shown # Nobody
  /\ token' = Nobody /\ purse' = 0 /\ Show(Nobody)
  /\ UNCHANGED <<restoring, asked>>

\* A page refreshes the profile (refreshUser).
RefreshUser ==
  /\ token # Nobody /\ ~restoring /\ asked = Nobody
  /\ asked' = token
  /\ UNCHANGED <<token, shown, restoring, purse, slip, hydrated, unsaved, saved, submission>>

\* The answer shows the user who was asked for, whoever is signed in by now.
RefreshAnswered(tokens) ==
  /\ asked # Nobody
  /\ asked' = Nobody /\ purse' = tokens /\ Show(asked)
  /\ UNCHANGED <<token, restoring>>

\* Refused: 401 signs out, any other error is ignored.
RefreshFailed ==
  /\ asked # Nobody
  /\ asked' = Nobody
  /\ \/ token' = Nobody /\ purse' = 0 /\ Show(Nobody)
     \/ UNCHANGED <<token, purse, shown, slip, hydrated, unsaved, saved, submission>>
  /\ UNCHANGED restoring

\* Without a token refreshUser is refused at once.
RefreshWithoutToken ==
  /\ submission.phase = "placing" /\ submission.waiting = {} /\ token = Nobody
  /\ submission' = NotSubmitting
  /\ IF submission.failed THEN UNCHANGED <<slip, unsaved>>
     ELSE slip' = Cleared /\ unsaved' = TRUE
  /\ shown' = Nobody /\ purse' = 0
  /\ UNCHANGED <<token, restoring, asked, hydrated, saved>>

\* The page is opened again: the state is gone, storage and the session stay.
Reload ==
  /\ ~restoring
  /\ shown' = Nobody /\ restoring' = TRUE /\ asked' = Nobody /\ purse' = 0
  /\ slip' = EmptySlip /\ hydrated' = Unloaded /\ unsaved' = FALSE
  /\ submission' = NotSubmitting
  /\ UNCHANGED <<token, saved>>

RestoreSession(tokens) ==
  /\ restoring /\ restoring' = FALSE
  /\ \/ token # Nobody /\ purse' = tokens /\ Show(token) /\ UNCHANGED token
     \/ token' \in {token, Nobody} /\ UNCHANGED purse /\ Show(Nobody)
  /\ UNCHANGED asked

UserActs ==
  \/ \E match \in Matches : AddSelection(match)
  \/ \E p \in slip.picks : RemoveSelection(p) \/ ToggleSingle(p)
  \/ ClearSlip \/ ToggleAccumulator
  \/ \E n \in {0, 1} : SetSingleStake(n) \/ SetAccumulatorStake(n)
  \/ SubmitSlip \/ Logout \/ RefreshUser
  \/ \E user \in Punters, tokens \in 0 .. MaxTokens : Login(user, tokens)

AnswerComes ==
  \/ \E bet \in Picks \cup {Combined}, failed \in BOOLEAN : BetAnswered(bet, failed)
  \/ AllAnswered \/ RefreshWithoutToken \/ SubmissionEnds \/ RefreshFailed
  \/ \E tokens \in 0 .. MaxTokens : RefreshAnswered(tokens) \/ RestoreSession(tokens)

SlipNext ==
  \/ RunEffects
  \/ Reload
  \/ ~EffectsDue /\ (UserActs \/ AnswerComes)
=============================================================================

------------------------- MODULE SessionsProperties -------------------------
(***************************************************************************)
(* What Sessions must guarantee.                                           *)
(***************************************************************************)
EXTENDS Sessions

(* auth.ts:298 "Also clears the refresh token so persistent sessions are   *)
(* terminated": the accepted refresh token belongs to a session that was   *)
(* signed in after the last revocation, through any number of rotations;   *)
(* the one exception is a rotation that had found its token before the     *)
(* revocation and wrote the new one after it (auth.ts:250-255).            *)
OldSessionsAreDead == refresh => root \in {0, version}

(* isRefreshing tells the truth where it matters: a tab with no request in *)
(* flight has it cleared, so that the next expired token is refreshed      *)
(* (api.ts:118-150, 222-238: several refreshes of a tab share one flag).   *)
FlagClearWhenQuiet ==
  \A t \in Tabs : (\A l \in Of(t) : ~Busy(l)) => ~flag[t]

(* Every promise of the client ends, whatever the server and the network   *)
(* answer: an expired token is refreshed and the request sent again once   *)
(* (api.ts:107, 139-144), and nobody waits for a refresh of somebody else; *)
(* so a page leaves its loading state (AuthContext.tsx:43-95).             *)
EveryRequestEnds ==
  /\ \A l \in Lanes : Busy(l) ~> ~Busy(l)
  /\ \A t \in Tabs : page[t] = "loading" ~> page[t] # "loading"
============================================================================

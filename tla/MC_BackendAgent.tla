-------------------------- MODULE MC_BackendAgent ---------------------------
(* One meeting and two create requests for it, so that the two requests   *)
(* race on one meeting id while the sync clears and refills the rows and  *)
(* the node ends the meeting; the operator toggles admin_state between    *)
(* ready and stopped.                                                     *)
EXTENDS BackendAgent

MCMeetings == {"m1"}
MCReqs == {"r1", "r2"}
MCReqMeeting(r) == "m1"
MCAdminStates == {"ready", "stopped"}
=============================================================================

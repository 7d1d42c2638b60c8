-------------------------- MODULE MC_EventHandler --------------------------
(* One meeting, two users and a stream of up to six events: enough for a  *)
(* join, a leave and a re-join to race the gateway's insert, the end and   *)
(* the destroy of the meeting.                                             *)
EXTENDS EventHandler

MCMeetings == {"m1"}
MCUsers == {"u1", "u2"}
=============================================================================

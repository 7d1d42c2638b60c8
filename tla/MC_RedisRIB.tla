---------------------------- MODULE MC_RedisRIB -----------------------------
(* Two meetings and the empty meeting id, three backends, a backend not     *)
(* saved yet and nil: every branch of SetBackend and GetBackend, over     *)
(* stores in which each meeting has or lacks a key.                       *)
EXTENDS RedisRIB

MCMeetingIDs == {"", "m1", "m2"}
=============================================================================

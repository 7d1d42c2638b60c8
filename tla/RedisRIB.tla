------------------------------ MODULE RedisRIB ------------------------------
(***************************************************************************)
(* RedisRIB of pkg/cluster/rib_redis.go: the association of a meeting     *)
(* with its backend kept in a redis key value store, under the key        *)
(* "m:" + id + ":be".  The store is a function from the keys present to   *)
(* the backend ids stored; each redis command is one atomic step.  A      *)
(* command that fails in transport (a timeout, a lost connection) returns *)
(* "unavailable" whether or not the server applied it; a check of the     *)
(* arguments answers "refused"; redis.Nil, the answer of GET for a missing *)
(* key, is the error "redis: nil".                                          *)
(***************************************************************************)
EXTENDS Functions

CONSTANTS MeetingIDs, EmptyID, Backends, Unsaved, NoBackend

ASSUME RedisRIBAssumption ==
    /\ EmptyID \in MeetingIDs
    /\ NoBackend \notin Backends /\ Unsaved \notin Backends
    /\ Unsaved # NoBackend

VARIABLES kv, last

Meetings == MeetingIDs \ {EmptyID}
Answers == Backends \cup {NoBackend, "ok", "refused", "unavailable",
                           "redis: nil"}
Calls == [op : {"none", "set", "get"}, m : MeetingIDs, res : Answers]

(* backendMeetingKey: "m:" + id + ":be"; the fixed prefix and suffix make  *)
(* the key determine the id, which the triple keeps.                       *)
backendMeetingKey(id) == <<"m:", id, ":be">>

Keys == {backendMeetingKey(m) : m \in Meetings}

TypeOK ==
    /\ DOMAIN kv \subseteq Keys
    /\ \A k \in DOMAIN kv : kv[k] \in Backends
    /\ last \in Calls

(* One write command with the store it leaves when applied. *)
RedisWrite(m, new) ==
    \/ /\ kv' = new
       /\ last' = [op |-> "set", m |-> m, res |-> "ok"]
    \/ /\ kv' \in {kv, new}
       /\ last' = [op |-> "set", m |-> m, res |-> "unavailable"]

(* SET key value: the store with the key bound to the value. *)
Set(k, v) == [x \in DOMAIN kv \cup {k} |-> IF x = k THEN v ELSE kv[x]]

(* DEL key: the store without the key. *)
Without(k) == Restrict(kv, DOMAIN kv \ {k})

-----------------------------------------------------------------------------
(* NewRedisRIB on an empty store. *)
Init ==
    /\ kv = [k \in {} |-> NoBackend]
    /\ last = [op |-> "none", m |-> EmptyID, res |-> "ok"]

(* Mutant of SetBackend: the backend id is not checked before SET. *)
SetBackendNoIDCheck(m, b) ==
    \/ /\ m = EmptyID
       /\ last' = [op |-> "set", m |-> m, res |-> "refused"]
       /\ UNCHANGED kv
    \/ /\ m # EmptyID /\ b = NoBackend
       /\ RedisWrite(m, Without(backendMeetingKey(m)))
    \/ /\ m # EmptyID /\ b # NoBackend
       /\ RedisWrite(m, Set(backendMeetingKey(m), b))

(* SetBackend(m, b): refuse an empty meeting id; with b nil DEL the key;   *)
(* refuse a backend with an empty id; else SET key b.ID.                   *)
SetBackend(m, b) ==
    \/ /\ m = EmptyID \/ b = Unsaved
       /\ last' = [op |-> "set", m |-> m, res |-> "refused"]
       /\ UNCHANGED kv
    \/ /\ m # EmptyID /\ b = NoBackend
       /\ RedisWrite(m, Without(backendMeetingKey(m)))
    \/ /\ m # EmptyID /\ b \notin {NoBackend, Unsaved}
       /\ RedisWrite(m, Set(backendMeetingKey(m), b))

(* Delete(m): SetBackend(m, nil), its error returned. *)
Delete(m) == SetBackend(m, NoBackend)

(* Mutant of GetBackend: redis.Nil for a missing key is returned as an     *)
(* error instead of no backend.                                            *)
GetBackendNilIsError(m) ==
    /\ \/ /\ m = EmptyID
          /\ last' = [op |-> "get", m |-> m, res |-> "refused"]
       \/ /\ m # EmptyID
          /\ backendMeetingKey(m) \in DOMAIN kv
          /\ last' \in {[op |-> "get", m |-> m, res |-> r] :
                          r \in {kv[backendMeetingKey(m)], "unavailable"}}
       \/ /\ m # EmptyID
          /\ backendMeetingKey(m) \notin DOMAIN kv
          /\ last' \in {[op |-> "get", m |-> m, res |-> r] :
                          r \in {"redis: nil", "unavailable"}}
    /\ UNCHANGED kv

(* GetBackend(m): refuse an empty meeting id; GET key: redis.Nil (no key)  *)
(* answers nil without error, a transport error is returned, an id is     *)
(* resolved by state.GetBackendByID.                                       *)
GetBackend(m) ==
    /\ \/ /\ m = EmptyID
          /\ last' = [op |-> "get", m |-> m, res |-> "refused"]
       \/ /\ m # EmptyID
          /\ backendMeetingKey(m) \in DOMAIN kv
          /\ last' \in {[op |-> "get", m |-> m, res |-> r] :
                          r \in {kv[backendMeetingKey(m)], "unavailable"}}
       \/ /\ m # EmptyID
          /\ backendMeetingKey(m) \notin DOMAIN kv
          /\ last' \in {[op |-> "get", m |-> m, res |-> r] :
                          r \in {NoBackend, "unavailable"}}
    /\ UNCHANGED kv

Next ==
    \/ \E m \in MeetingIDs, b \in Backends \cup {Unsaved, NoBackend} :
         SetBackend(m, b)
    \/ \E m \in MeetingIDs : Delete(m) \/ GetBackend(m)

Spec == Init /\ [][Next]_<<kv, last>>

-----------------------------------------------------------------------------
(* The association the store holds, read through the key scheme. *)
Assoc == [m \in Meetings |->
            IF backendMeetingKey(m) \in DOMAIN kv
            THEN kv[backendMeetingKey(m)] ELSE NoBackend]

Abstract == INSTANCE RIB WITH assoc <- Assoc

(* RedisRIB implements the RIB: every SetBackend, Delete and GetBackend,   *)
(* with transport failures, is a step of the abstract RIB under the key   *)
(* scheme, and GetBackend answers nil for a meeting that has no key.      *)
ImplementsRIB == Abstract!Spec
=============================================================================

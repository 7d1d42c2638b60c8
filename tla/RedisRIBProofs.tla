--------------------------- MODULE RedisRIBProofs ---------------------------
(***************************************************************************)
(* Proof that RedisRIB implements the abstract RIB for every set of        *)
(* meetings and backends: the store read through the key scheme, Assoc,    *)
(* starts as the empty association, and every SetBackend, Delete and       *)
(* GetBackend of rib_redis.go, failed transports included, is an Associate *)
(* or Lookup step of RIB or leaves the association and the answer alone.   *)
(* No invariant is needed: Assoc reads the store only through the keys of  *)
(* meetings, and distinct meetings have distinct keys.                     *)
(***************************************************************************)
EXTENDS RedisRIB, TLAPS

(* backendMeetingKey is injective: "m:" + id + ":be" determines the id.   *)
LEMMA KeyInjective ==
    ASSUME NEW m1, NEW m2, backendMeetingKey(m1) = backendMeetingKey(m2)
    PROVE  m1 = m2
BY DEF backendMeetingKey

(* SET of the key of m makes the association map m to b. *)
LEMMA AssocAfterSet ==
    ASSUME NEW m \in Meetings, NEW b,
           kv' = Set(backendMeetingKey(m), b)
    PROVE  Assoc' = [Assoc EXCEPT ![m] = b]
<1>1. \A m2 \in Meetings :
         backendMeetingKey(m2) = backendMeetingKey(m) <=> m2 = m
  BY KeyInjective
<1>2. /\ DOMAIN kv' = {backendMeetingKey(m)} \cup DOMAIN kv
      /\ kv'[backendMeetingKey(m)] = b
      /\ \A k \in DOMAIN kv \ {backendMeetingKey(m)} : kv'[k] = kv[k]
  BY DEF Set
<1>. QED  BY <1>1, <1>2 DEF Assoc

(* DEL of the key of m makes the association map m to no backend. *)
LEMMA AssocAfterDel ==
    ASSUME NEW m \in Meetings,
           kv' = Without(backendMeetingKey(m))
    PROVE  Assoc' = [Assoc EXCEPT ![m] = NoBackend]
<1>1. \A m2 \in Meetings :
         backendMeetingKey(m2) = backendMeetingKey(m) <=> m2 = m
  BY KeyInjective
<1>2. /\ DOMAIN kv' = DOMAIN kv \ {backendMeetingKey(m)}
      /\ \A k \in DOMAIN kv' : kv'[k] = kv[k]
  BY DEF Without, Restrict
<1>. QED  BY <1>1, <1>2 DEF Assoc

(* A write command, applied or lost in transport, is an Associate step of  *)
(* a meeting with a backend that has an id.                                *)
LEMMA WriteIsAssociate ==
    ASSUME NEW m \in Meetings, NEW b \in Backends \cup {NoBackend},
           NEW new,
           new = Without(backendMeetingKey(m)) \/
                 new = Set(backendMeetingKey(m), b),
           new = Without(backendMeetingKey(m)) => b = NoBackend,
           RedisWrite(m, new)
    PROVE  Abstract!Associate(m, b)
<1>1. m # EmptyID /\ b # Unsaved
  BY RedisRIBAssumption DEF Meetings
<1>2. kv' = new => Assoc' = [Assoc EXCEPT ![m] = b]
  <2>1. CASE new = Without(backendMeetingKey(m))
    BY <2>1, AssocAfterDel
  <2>2. CASE new = Set(backendMeetingKey(m), b)
    BY <2>2, AssocAfterSet
  <2>. QED  BY <2>1, <2>2
<1>3. CASE kv' = new /\ last' = [op |-> "set", m |-> m, res |-> "ok"]
  BY <1>1, <1>2, <1>3 DEF Abstract!Associate
<1>4. CASE kv' \in {kv, new}
           /\ last' = [op |-> "set", m |-> m, res |-> "unavailable"]
  <2>1. CASE kv' = kv
    BY <1>1, <1>4, <2>1 DEF Abstract!Associate, Assoc
  <2>2. CASE kv' = new
    BY <1>1, <1>2, <1>4, <2>2 DEF Abstract!Associate
  <2>. QED  BY <1>4, <2>1, <2>2
<1>. QED  BY <1>3, <1>4 DEF RedisWrite

(* Every SetBackend call is an Associate step of the same arguments. *)
LEMMA SetBackendStep ==
    ASSUME NEW m \in MeetingIDs, NEW b \in Backends \cup {Unsaved, NoBackend},
           SetBackend(m, b)
    PROVE  Abstract!Associate(m, b)
<1>1. CASE m = EmptyID \/ b = Unsaved
  <2>1. last' = [op |-> "set", m |-> m, res |-> "refused"] /\ kv' = kv
    BY <1>1, RedisRIBAssumption DEF SetBackend
  <2>. QED  BY <1>1, <2>1 DEF Abstract!Associate, Assoc
<1>2. CASE m # EmptyID /\ b = NoBackend
  <2>1. RedisWrite(m, Without(backendMeetingKey(m)))
    BY <1>2, RedisRIBAssumption DEF SetBackend
  <2>. QED  BY <1>2, <2>1, WriteIsAssociate DEF Meetings
<1>3. CASE m # EmptyID /\ b \in Backends
  <2>1. RedisWrite(m, Set(backendMeetingKey(m), b))
    BY <1>3, RedisRIBAssumption DEF SetBackend
  <2>2. Set(backendMeetingKey(m), b) # Without(backendMeetingKey(m))
    BY DEF Without, Restrict, Set
  <2>. QED  BY <1>3, <2>1, <2>2, WriteIsAssociate DEF Meetings
<1>. QED  BY <1>1, <1>2, <1>3

(* Every GetBackend call is a Lookup step of the same meeting. *)
LEMMA GetBackendStep ==
    ASSUME NEW m \in MeetingIDs, GetBackend(m)
    PROVE  Abstract!Lookup(m)
<1>1. Assoc' = Assoc
  BY DEF GetBackend, Assoc
<1>2. CASE m = EmptyID
  BY <1>1, <1>2 DEF GetBackend, Abstract!Lookup
<1>3. CASE m # EmptyID
  <2>1. m \in Meetings
    BY <1>3 DEF Meetings
  <2>. QED  BY <1>1, <1>3, <2>1 DEF GetBackend, Abstract!Lookup, Assoc
<1>. QED  BY <1>2, <1>3

-----------------------------------------------------------------------------
(* RedisRIB implements the RIB: under the key scheme every behaviour of    *)
(* rib_redis.go's RedisRIB is a behaviour of the abstract RIB, for every   *)
(* value of the constants.                                                 *)
THEOREM Refinement == Spec => ImplementsRIB
<1>1. Init => Abstract!Init
  BY DEF Init, Abstract!Init, Assoc, Abstract!NoCall, Meetings,
         Abstract!Meetings
<1>2. [Next]_<<kv, last>> => [Abstract!Next]_<<Assoc, last>>
  <2>. SUFFICES ASSUME [Next]_<<kv, last>>
                PROVE  [Abstract!Next]_<<Assoc, last>>
    OBVIOUS
  <2>1. CASE \E m \in MeetingIDs, b \in Backends \cup {Unsaved, NoBackend} :
               SetBackend(m, b)
    BY <2>1, SetBackendStep DEF Abstract!Next
  <2>2. CASE \E m \in MeetingIDs : Delete(m)
    <3>1. NoBackend \in Backends \cup {Unsaved, NoBackend}
      OBVIOUS
    <3>. QED  BY <2>2, <3>1, SetBackendStep DEF Delete, Abstract!Next
  <2>3. CASE \E m \in MeetingIDs : GetBackend(m)
    BY <2>3, GetBackendStep DEF Abstract!Next
  <2>4. CASE UNCHANGED <<kv, last>>
    BY <2>4 DEF Assoc
  <2>. QED  BY <2>1, <2>2, <2>3, <2>4 DEF Next
<1>. QED  BY <1>1, <1>2, PTL DEF Spec, ImplementsRIB, Abstract!Spec

-----------------------------------------------------------------------------
(* A write through RedisWrite, applied or lost in transport, of a store    *)
(* that stays within the meetings' keys and the backend ids keeps TypeOK.  *)
LEMMA WriteKeepsType ==
    ASSUME TypeOK, NEW m \in Meetings, NEW new,
           DOMAIN new \subseteq Keys,
           \A k \in DOMAIN new : new[k] \in Backends,
           RedisWrite(m, new)
    PROVE  TypeOK'
<1>1. m \in MeetingIDs /\ "ok" \in Answers /\ "unavailable" \in Answers
  BY DEF Meetings, Answers
<1>. QED  BY <1>1 DEF RedisWrite, TypeOK, Calls

(* DEL of a key leaves a store within the keys and backend ids. *)
LEMMA WithoutKeepsType ==
    ASSUME TypeOK, NEW k
    PROVE  /\ DOMAIN Without(k) \subseteq Keys
           /\ \A x \in DOMAIN Without(k) : Without(k)[x] \in Backends
BY DEF TypeOK, Without, Restrict

(* SET of a meeting's key to a backend id keeps the store within the keys  *)
(* and backend ids.                                                        *)
LEMMA SetKeepsType ==
    ASSUME TypeOK, NEW m \in Meetings, NEW b \in Backends
    PROVE  /\ DOMAIN Set(backendMeetingKey(m), b) \subseteq Keys
           /\ \A x \in DOMAIN Set(backendMeetingKey(m), b) :
                 Set(backendMeetingKey(m), b)[x] \in Backends
<1>1. backendMeetingKey(m) \in Keys
  BY DEF Keys
<1>. QED  BY <1>1 DEF TypeOK, Set

(* Every SetBackend call, refused, deleting or setting, keeps TypeOK. *)
LEMMA SetBackendKeepsType ==
    ASSUME TypeOK, NEW m \in MeetingIDs,
           NEW b \in Backends \cup {Unsaved, NoBackend}, SetBackend(m, b)
    PROVE  TypeOK'
<1> USE RedisRIBAssumption
<1>1. CASE m = EmptyID \/ b = Unsaved
  <2>1. last' = [op |-> "set", m |-> m, res |-> "refused"] /\ kv' = kv
    BY <1>1 DEF SetBackend
  <2>2. "refused" \in Answers
    BY DEF Answers
  <2>. QED  BY <2>1, <2>2 DEF TypeOK, Calls
<1>2. CASE m # EmptyID /\ b = NoBackend
  <2>1. m \in Meetings /\ RedisWrite(m, Without(backendMeetingKey(m)))
    BY <1>2 DEF SetBackend, Meetings
  <2>. QED  BY <2>1, WithoutKeepsType, WriteKeepsType
<1>3. CASE m # EmptyID /\ b \in Backends
  <2>1. m \in Meetings /\ RedisWrite(m, Set(backendMeetingKey(m), b))
    BY <1>3 DEF SetBackend, Meetings
  <2>. QED  BY <1>3, <2>1, SetKeepsType, WriteKeepsType
<1>. QED  BY <1>1, <1>2, <1>3

(* Every GetBackend call answers one of the backend ids it read, nil, or   *)
(* an error, and leaves the store alone.                                   *)
LEMMA GetBackendKeepsType ==
    ASSUME TypeOK, NEW m \in MeetingIDs, GetBackend(m)
    PROVE  TypeOK'
<1>1. UNCHANGED kv
  BY DEF GetBackend
<1>2. last' \in Calls
  <2>1. /\ {"refused", "unavailable", NoBackend} \subseteq Answers
        /\ \A k \in DOMAIN kv : kv[k] \in Answers
    BY DEF TypeOK, Answers
  <2>2. CASE m = EmptyID
    BY <2>1, <2>2 DEF GetBackend, Calls
  <2>3. CASE m # EmptyID /\ backendMeetingKey(m) \in DOMAIN kv
    BY <2>1, <2>3 DEF GetBackend, Calls
  <2>4. CASE m # EmptyID /\ backendMeetingKey(m) \notin DOMAIN kv
    BY <2>1, <2>4 DEF GetBackend, Calls
  <2>. QED  BY <2>2, <2>3, <2>4
<1>. QED  BY <1>1, <1>2 DEF TypeOK

LEMMA NextTypeOK == TypeOK /\ [Next]_<<kv, last>> => TypeOK'
<1> SUFFICES ASSUME TypeOK, [Next]_<<kv, last>> PROVE TypeOK'
  OBVIOUS
<1>1. CASE \E m \in MeetingIDs, b \in Backends \cup {Unsaved, NoBackend} :
             SetBackend(m, b)
  BY <1>1, SetBackendKeepsType
<1>2. CASE \E m \in MeetingIDs : Delete(m)
  BY <1>2, SetBackendKeepsType DEF Delete
<1>3. CASE \E m \in MeetingIDs : GetBackend(m)
  BY <1>3, GetBackendKeepsType
<1>4. CASE UNCHANGED <<kv, last>>
  BY <1>4 DEF TypeOK
<1>. QED  BY <1>1, <1>2, <1>3, <1>4 DEF Next

(* The store holds only the keys "m:" + id + ":be" of non-empty meeting    *)
(* ids, each bound to the id of a saved backend, and every call's answer   *)
(* is a backend, nil or one of the errors, for every set of meetings and   *)
(* backends: SetBackend's checks keep the empty id and unsaved backends    *)
(* out of redis.                                                           *)
THEOREM TypeCorrect == Spec => []TypeOK
<1>1. Init => TypeOK
  BY RedisRIBAssumption DEF Init, TypeOK, Calls, Answers
<1>. QED  BY <1>1, NextTypeOK, PTL DEF Spec
=============================================================================

-------------------------------- MODULE RIB ---------------------------------
(***************************************************************************)
(* What a routing information base promises the gateway: it associates a  *)
(* meeting with the backend that hosts it (SetBackend), forgets the        *)
(* association (SetBackend with no backend, Delete) and looks it up        *)
(* (GetBackend, which answers no backend for a meeting it does not know).  *)
(* A meeting with an empty id and a backend without an id are refused.     *)
(* A call that fails for lack of the store answers "unavailable" and may   *)
(* or may not have taken effect; a refused call answers "refused".  Every  *)
(* call is one atomic step; last is the answer of the latest call.        *)
(***************************************************************************)
CONSTANTS
    MeetingIDs,     \* meeting ids callers pass, the empty one included
    EmptyID,        \* the empty meeting id ""
    Backends,       \* cluster backends, each with an id
    Unsaved,        \* a backend whose id is still empty
    NoBackend       \* nil

Meetings == MeetingIDs \ {EmptyID}

VARIABLES assoc, last

Answers == Backends \cup {NoBackend, "ok", "refused", "unavailable"}
Calls == [op : {"none", "set", "get"}, m : MeetingIDs, res : Answers]
NoCall == [op |-> "none", m |-> EmptyID, res |-> "ok"]

TypeOK ==
    /\ assoc \in [Meetings -> Backends \cup {NoBackend}]
    /\ last \in Calls

Init ==
    /\ assoc = [m \in Meetings |-> NoBackend]
    /\ last = NoCall

(* Associate meeting m with backend b, or forget it when b is NoBackend. *)
Associate(m, b) ==
    \/ /\ m = EmptyID \/ b = Unsaved
       /\ last' = [op |-> "set", m |-> m, res |-> "refused"]
       /\ UNCHANGED assoc
    \/ /\ m # EmptyID /\ b # Unsaved
       /\ \/ /\ assoc' = [assoc EXCEPT ![m] = b]
             /\ last' = [op |-> "set", m |-> m, res |-> "ok"]
          \/ /\ assoc' \in {assoc, [assoc EXCEPT ![m] = b]}
             /\ last' = [op |-> "set", m |-> m, res |-> "unavailable"]

(* Look the backend of meeting m up. *)
Lookup(m) ==
    /\ \/ /\ m = EmptyID
          /\ last' = [op |-> "get", m |-> m, res |-> "refused"]
       \/ /\ m # EmptyID
          /\ last' \in {[op |-> "get", m |-> m, res |-> r] :
                          r \in {assoc[m], "unavailable"}}
    /\ UNCHANGED assoc

Next ==
    \/ \E m \in MeetingIDs, b \in Backends \cup {Unsaved, NoBackend} :
         Associate(m, b)
    \/ \E m \in MeetingIDs : Lookup(m)

Spec == Init /\ [][Next]_<<assoc, last>>
=============================================================================

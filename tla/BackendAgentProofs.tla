------------------------- MODULE BackendAgentProofs -------------------------
(***************************************************************************)
(* Proof that the backend's create path, meeting sync, probe and operator  *)
(* keep their state well typed, for every set of meetings, requests and    *)
(* admin states.  TypeOK is inductive as it stands; the one fact it needs  *)
(* from outside is that every request names a meeting of the backend      *)
(* (AgentAssumption), which CreateRecord's insert relies on.              *)
(***************************************************************************)
EXTENDS BackendAgent, TLAPS

LEMMA InitTypeOK == Init => TypeOK
BY AgentAssumption DEF Init, TypeOK, NodeStates

(* The node, the operator and the probe: the probe's deferred Save writes *)
(* node_state ready or error and admin_state from memory.                *)
LEMMA EnvStepType ==
    ASSUME TypeOK,
           \/ \E m \in Meetings : NodeEnd(m)
           \/ \E a \in AdminStates : OperatorSetAdmin(a)
           \/ Probe
    PROVE  TypeOK'
<1>1. CASE \E m \in Meetings : NodeEnd(m)
  BY <1>1 DEF NodeEnd, TypeOK
<1>2. CASE \E a \in AdminStates : OperatorSetAdmin(a)
  BY <1>2 DEF OperatorSetAdmin, TypeOK
<1>3. CASE Probe
  BY <1>3 DEF Probe, SaveState, NodeStates, TypeOK
<1>. QED  BY <1>1, <1>2, <1>3

(* Each step of a create request, the refused create's record included.  *)
LEMMA CreateStepType ==
    ASSUME TypeOK, NEW r \in Reqs, CreateStep(r)
    PROVE  TypeOK'
<1>1. ReqMeeting(r) \in Meetings
  BY AgentAssumption
<1>2. CASE CreateRead(r)
  <2>1. CASE /\ seen' = [seen EXCEPT ![r] = MeetingStateFound(ReqMeeting(r))]
             /\ cpc' = [cpc EXCEPT ![r] = IF MeetingStateFound(ReqMeeting(r))
                                           THEN "probe" ELSE "forward"]
             /\ UNCHANGED answer
    <3>1. MeetingStateFound(ReqMeeting(r)) \in BOOLEAN
      BY DEF MeetingStateFound
    <3>. QED  BY <1>2, <2>1, <3>1 DEF CreateRead, TypeOK
  <2>2. CASE Answer(r, "error") /\ UNCHANGED seen
    BY <1>2, <2>2 DEF CreateRead, Answer, TypeOK
  <2>. QED  BY <1>2, <2>1, <2>2 DEF CreateRead
<1>3. CASE CreateProbe(r)
  BY <1>3 DEF CreateProbe, Answer, TypeOK
<1>4. CASE CreateForward(r)
  BY <1>1, <1>4 DEF CreateForward, Answer, TypeOK
<1>5. CASE CreateRecord(r)
  <2>1. CASE seen[r]
    BY <1>5, <2>1 DEF CreateRecord, MeetingStateSave, Answer, TypeOK
  <2>2. CASE ~seen[r]
    BY <1>1, <1>5, <2>2 DEF CreateRecord, CreateMeetingState, Answer, TypeOK
  <2>. QED  BY <2>1, <2>2
<1>. QED  BY <1>2, <1>3, <1>4, <1>5 DEF CreateStep

(* Each statement of SetMeetings: the fetched list and todo are meetings  *)
(* of the backend, and an insert takes one of todo.                       *)
LEMMA SyncStepType ==
    ASSUME TypeOK, SyncFetch \/ SyncClear \/ SyncInsert \/ SyncSave
    PROVE  TypeOK'
<1>1. CASE SyncFetch
  BY <1>1 DEF SyncFetch, TypeOK
<1>2. CASE SyncClear
  BY <1>2 DEF SyncClear, TypeOK
<1>3. CASE SyncInsert
  BY <1>3 DEF SyncInsert, TypeOK
<1>4. CASE SyncSave
  BY <1>4 DEF SyncSave, SaveState, NodeStates, TypeOK
<1>. QED  BY <1>1, <1>2, <1>3, <1>4

LEMMA NextTypeOK == TypeOK /\ [Next]_vars => TypeOK'
<1> SUFFICES ASSUME TypeOK, [Next]_vars PROVE TypeOK'
  OBVIOUS
<1>1. CASE UNCHANGED vars
  BY <1>1 DEF vars, TypeOK
<1>. QED  BY <1>1, EnvStepType, CreateStepType, SyncStepType DEF Next

-----------------------------------------------------------------------------
(* The state of the create path, the sync, the probe and the operator is   *)
(* well typed in every reachable state, for every configuration: rows and  *)
(* the sync's lists name only the backend's meetings, every request's      *)
(* answer is none, ok or error.                                            *)
THEOREM TypeCorrect == Spec => []TypeOK
BY InitTypeOK, NextTypeOK, PTL DEF Spec
=============================================================================

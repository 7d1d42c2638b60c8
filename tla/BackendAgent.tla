---------------------------- MODULE BackendAgent ----------------------------
(***************************************************************************)
(* One conferencing backend as pkg/cluster's Backend sees it, and the      *)
(* store rows that describe it: the backends row (node_state,              *)
(* admin_state) with the agent's in-memory copy b.state, and the meetings  *)
(* rows of the backend.  Three kinds of actors run concurrently:           *)
(*   - the agent's liveness probe (Backend.loadNodeState, whose deferred   *)
(*     BackendState.Save writes the whole row from memory and refreshes);  *)
(*   - the agent's meeting sync (BackendState.SetMeetings), one step per  *)
(*     statement it issues;                                                *)
(*   - the gateway's create requests (Backend.Create), one step per store *)
(*     or HTTP call;                                                       *)
(* and, around them, the operator writing admin_state and the node ending *)
(* meetings on its own.                                                    *)
(*                                                                         *)
(* The node answers isMeetingRunning with returncode SUCCESS for any      *)
(* meeting id, known or not (the contract loadNodeState relies on when it *)
(* probes a synthetic id), and FAILED when it refuses the request.        *)
(***************************************************************************)
EXTENDS FiniteSets

CONSTANTS
    Meetings,       \* meeting ids on this backend
    Reqs,           \* create requests the gateway serves
    ReqMeeting(_),  \* the meetingID of each create request
    AdminStates     \* values the operator writes to admin_state

ASSUME AgentAssumption ==
    /\ \A r \in Reqs : ReqMeeting(r) \in Meetings
    /\ "ready" \in AdminStates

VARIABLES
    upstream,   \* the node: is the meeting running there
    rows,       \* meetings rows of this backend
    dbNode,     \* backends.node_state
    dbAdmin,    \* backends.admin_state
    memNode,    \* b.state.NodeState, the agent's in-memory copy
    memAdmin,   \* b.state.AdminState
    opAdmin,    \* history: the admin_state the operator wrote last
    everUp,     \* history: meetings that were running on the node at some time
    cpc,        \* each create request: "start", "probe", "forward",
                \* "record" or "done"
    seen,       \* Create: meetingStateFromRequest found a row
    answer,     \* Create's answer: "none", "ok" (a response, nil error)
                \* or "error"
    spc,        \* SetMeetings: "idle", "clear" or "insert"
    fetched,    \* the meetings list SetMeetings was given
    todo,       \* meetings of that list not saved yet
    before      \* history: the rows when the sync started

vars == <<upstream, rows, dbNode, dbAdmin, memNode, memAdmin, opAdmin,
          everUp, cpc, seen, answer, spc, fetched, todo, before>>

NodeStates == {"init", "ready", "error"}

TypeOK ==
    /\ upstream \in [Meetings -> BOOLEAN]
    /\ rows \subseteq Meetings
    /\ dbNode \in NodeStates /\ memNode \in NodeStates
    /\ dbAdmin \in AdminStates /\ memAdmin \in AdminStates
    /\ opAdmin \in AdminStates
    /\ everUp \subseteq Meetings
    /\ cpc \in [Reqs -> {"start", "probe", "forward", "record", "done"}]
    /\ seen \in [Reqs -> BOOLEAN]
    /\ answer \in [Reqs -> {"none", "ok", "error"}]
    /\ spc \in {"idle", "clear", "insert"}
    /\ fetched \subseteq Meetings /\ todo \subseteq Meetings
    /\ before \subseteq Meetings

-----------------------------------------------------------------------------
(* BackendState.Save of the in-memory record with node_state n: update()   *)
(* writes every column from memory, then Refresh reads the row back.  When *)
(* the UPDATE fails Save returns the error, nothing is written and the     *)
(* memory keeps n.                                                         *)
SaveState(n) ==
    \/ /\ dbNode' = n
       /\ dbAdmin' = memAdmin
       /\ memNode' = n
       /\ memAdmin' = memAdmin
    \/ /\ memNode' = n
       /\ UNCHANGED <<dbNode, dbAdmin, memAdmin>>

(* Create answers request r. *)
Answer(r, a) ==
    /\ answer' = [answer EXCEPT ![r] = a]
    /\ cpc' = [cpc EXCEPT ![r] = "done"]

Init ==
    /\ upstream = [m \in Meetings |-> FALSE]
    /\ rows = {}
    /\ dbNode = "init" /\ memNode = "init"
    /\ dbAdmin = "ready" /\ memAdmin = "ready" /\ opAdmin = "ready"
    /\ everUp = {}
    /\ cpc = [r \in Reqs |-> "start"]
    /\ seen = [r \in Reqs |-> FALSE]
    /\ answer = [r \in Reqs |-> "none"]
    /\ spc = "idle"
    /\ fetched = {} /\ todo = {} /\ before = {}

(* The node ends a meeting (the last user left, or an end request); it     *)
(* forgets the meeting.                                                    *)
NodeEnd(m) ==
    /\ upstream[m]
    /\ upstream' = [upstream EXCEPT ![m] = FALSE]
    /\ UNCHANGED <<rows, dbNode, dbAdmin, memNode, memAdmin, opAdmin, everUp,
                   cpc, seen, answer, spc, fetched, todo, before>>

(* The operator path writes admin_state of the backends row. *)
OperatorSetAdmin(a) ==
    /\ dbAdmin' = a
    /\ opAdmin' = a
    /\ UNCHANGED <<upstream, rows, dbNode, memNode, memAdmin, everUp, cpc,
                   seen, answer, spc, fetched, todo, before>>

(* Mutant of Probe: the returncode is stored as the node_state. *)
ProbeStoresReturncode ==
    /\ \E ok \in BOOLEAN : SaveState(IF ok THEN "ready" ELSE "FAILED")
    /\ UNCHANGED <<upstream, rows, opAdmin, everUp, cpc, seen, answer,
                   spc, fetched, todo, before>>

(* Backend.loadNodeState: isMeetingRunning for a synthetic meeting id.  A  *)
(* transport error or a returncode other than SUCCESS sets node_state      *)
(* error, SUCCESS sets ready; the deferred Save then writes the record.    *)
Probe ==
    /\ \E ok \in BOOLEAN : SaveState(IF ok THEN "ready" ELSE "error")
    /\ UNCHANGED <<upstream, rows, opAdmin, everUp, cpc, seen, answer,
                   spc, fetched, todo, before>>

-----------------------------------------------------------------------------
(* Backend.Create, from meetingStateFromRequest to the store update.        *)

(* GetMeetingState by meeting id: GetMeetingStates selects the rows and     *)
(* scans each (meetingStateFromRow); the first is the meeting's state, or  *)
(* nil when there is none.                                                 *)
MeetingStateFound(m) == m \in rows

(* meetingStateFromRequest: look the meeting row up; a store error is      *)
(* returned to the client.                                                 *)
CreateRead(r) ==
    /\ cpc[r] = "start"
    /\ \/ /\ seen' = [seen EXCEPT ![r] = MeetingStateFound(ReqMeeting(r))]
          /\ cpc' = [cpc EXCEPT ![r] = IF MeetingStateFound(ReqMeeting(r))
                                        THEN "probe" ELSE "forward"]
          /\ UNCHANGED answer
       \/ /\ Answer(r, "error")
          /\ UNCHANGED seen
    /\ UNCHANGED <<upstream, rows, dbNode, dbAdmin, memNode, memAdmin,
                   opAdmin, everUp, spc, fetched, todo, before>>

(* The row exists: IsMeetingRunning.  A transport error is returned;       *)
(* returncode SUCCESS answers the stored meeting in a synthetic response;  *)
(* FAILED falls through to creating the meeting.  (The "ERROR" branch that *)
(* deletes the row needs a returncode the node never sends.)               *)
CreateProbe(r) ==
    /\ cpc[r] = "probe"
    /\ \/ Answer(r, "error")
       \/ Answer(r, "ok")
       \/ /\ cpc' = [cpc EXCEPT ![r] = "forward"]
          /\ UNCHANGED answer
    /\ UNCHANGED <<upstream, rows, dbNode, dbAdmin, memNode, memAdmin,
                   opAdmin, everUp, seen, spc, fetched, todo, before>>

(* client.Do(create) on the backend: a transport error is returned.  Any  *)
(* response goes on to be recorded: Create never reads createRes's        *)
(* returncode (nor does UnmarshalCreateResponse), so a create the node    *)
(* refuses with FAILED (a bad checksum, a stale secret) is recorded and   *)
(* returned like one the node ran (create is idempotent on a running      *)
(* meeting).                                                              *)
CreateForward(r) ==
    /\ cpc[r] = "forward"
    /\ \/ /\ Answer(r, "error")
          /\ UNCHANGED <<upstream, everUp>>
       \/ /\ \/ /\ upstream' = [upstream EXCEPT ![ReqMeeting(r)] = TRUE]
                /\ everUp' = everUp \cup {ReqMeeting(r)}
             \/ UNCHANGED <<upstream, everUp>>
          /\ cpc' = [cpc EXCEPT ![r] = "record"]
          /\ UNCHANGED answer
    /\ UNCHANGED <<rows, dbNode, dbAdmin, memNode, memAdmin, opAdmin, seen,
                   spc, fetched, todo, before>>

(* BackendState.CreateMeetingState: insert a row for the created meeting;  *)
(* the unique meeting index refuses it when a row exists by now.           *)
CreateMeetingState(r) ==
    \/ /\ ReqMeeting(r) \notin rows
       /\ rows' = rows \cup {ReqMeeting(r)}
       /\ Answer(r, "ok")
    \/ /\ ReqMeeting(r) \in rows
       /\ Answer(r, "error")
       /\ UNCHANGED rows

(* MeetingState.Save of a state read from the store: CreatedAt is set, so  *)
(* Save takes update(), which returns "implement me"; nothing is written   *)
(* and Refresh is not reached.  The error goes to the client.              *)
MeetingStateSave(r) ==
    /\ Answer(r, "error")
    /\ UNCHANGED rows

(* Update or save the meeting state: with no state found at the start     *)
(* CreateMeetingState, else the found state's Save.                        *)
CreateRecord(r) ==
    /\ cpc[r] = "record"
    /\ IF seen[r] THEN MeetingStateSave(r) ELSE CreateMeetingState(r)
    /\ UNCHANGED <<upstream, dbNode, dbAdmin, memNode, memAdmin, opAdmin,
                   everUp, seen, spc, fetched, todo, before>>

CreateStep(r) ==
    CreateRead(r) \/ CreateProbe(r) \/ CreateForward(r) \/ CreateRecord(r)

-----------------------------------------------------------------------------
(* BackendState.SetMeetings(meetings), the meeting sync.                   *)

(* The agent calls SetMeetings with the meetings getMeetings reported;    *)
(* Begin opens a transaction.                                              *)
SyncFetch ==
    /\ spc = "idle"
    /\ fetched' = {m \in Meetings : upstream[m]}
    /\ before' = rows
    /\ spc' = "clear"
    /\ UNCHANGED <<upstream, rows, dbNode, dbAdmin, memNode, memAdmin,
                   opAdmin, everUp, cpc, seen, answer, todo>>

(* ClearMeetings runs on s.conn, not on the transaction: its DELETE of the *)
(* backend's rows commits at once.  On an error SetMeetings returns.       *)
SyncClear ==
    /\ spc = "clear"
    /\ \/ /\ rows' = {}
          /\ todo' = fetched
          /\ spc' = "insert"
       \/ /\ spc' = "idle"
          /\ UNCHANGED <<rows, todo>>
    /\ UNCHANGED <<upstream, dbNode, dbAdmin, memNode, memAdmin, opAdmin,
                   everUp, cpc, seen, answer, fetched, before>>

(* One iteration of the loop: state.Save() inserts the meeting, again     *)
(* outside the transaction; its error (the unique index, a lost           *)
(* connection) is ignored.                                                 *)
SyncInsert ==
    /\ spc = "insert"
    /\ \E m \in todo :
         /\ todo' = todo \ {m}
         /\ rows' \in {rows \cup {m}, rows}
    /\ UNCHANGED <<upstream, dbNode, dbAdmin, memNode, memAdmin, opAdmin,
                   everUp, cpc, seen, answer, spc, fetched, before>>

(* After the loop: NodeState = "ready", s.Save() (error ignored) and the   *)
(* Commit of the empty transaction.                                        *)
SyncSave ==
    /\ spc = "insert"
    /\ todo = {}
    /\ SaveState("ready")
    /\ spc' = "idle"
    /\ UNCHANGED <<upstream, rows, opAdmin, everUp, cpc, seen, answer,
                   fetched, todo, before>>

Next ==
    \/ \E m \in Meetings : NodeEnd(m)
    \/ \E a \in AdminStates : OperatorSetAdmin(a)
    \/ Probe
    \/ \E r \in Reqs : CreateStep(r)
    \/ SyncFetch \/ SyncClear \/ SyncInsert \/ SyncSave

(* Each create request is served by its own goroutine, which runs Create   *)
(* to its end: every call it makes returns, with an answer or an error.    *)
Fairness == \A r \in Reqs : WF_vars(CreateStep(r))

Spec == Init /\ [][Next]_vars /\ Fairness

-----------------------------------------------------------------------------
(* Spec section 3 (lifecycle): meetings are created by the gateway on a   *)
(* successful create, and the sync mirrors the meetings the node reports.  *)
(* So every meetings row of the backend names a meeting that the node ran  *)
(* at some time, whatever the interleaving of SetMeetings, Create and the  *)
(* node ending meetings.                                                   *)
RowsWereCreated == rows \subseteq everUp

(* Spec 4.5/4.7: the agent owns node_state, latency and last_error; tags,  *)
(* host, secret and admin_state are written only by the operator path.     *)
(* So admin_state is always what the operator wrote last.                  *)
OperatorWritesSurvive == dbAdmin = opAdmin

(* Spec 4.4: the meeting sync runs in one transaction, so while it runs,   *)
(* a meeting that had a row and that the node still reports keeps its row. *)
SyncAtomic ==
    spc = "insert" => \A m \in before \cap fetched : m \in rows

=============================================================================

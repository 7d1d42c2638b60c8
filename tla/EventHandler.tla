---------------------------- MODULE EventHandler ----------------------------
(***************************************************************************)
(* The meeting replica kept by the node agent b3scalenoded from the       *)
(* backend's event stream (cmd/b3scalenoded/handler.go), racing the       *)
(* gateway, which records a meeting row after the backend answered its    *)
(* create (Backend.Create in pkg/cluster).                                 *)
(*                                                                         *)
(* The backend side is one conferencing node: each internal meeting id is *)
(* created, joined and left by users, ended and destroyed, and every such *)
(* step publishes an event.  EventHandler.Dispatch handles the events one *)
(* at a time, in arrival order, each in its own transaction.  The         *)
(* handlers of MeetingCreated and MeetingEnded first wait up to 5 s for   *)
(* the meeting row (awaitInternalMeeting); the wait is a step of its own, *)
(* so the gateway's insert can land while it lasts.                       *)
(***************************************************************************)
EXTENDS Naturals, Sequences

CONSTANTS
    Meetings,       \* internal meeting ids
    Users,          \* internal user ids
    NoUser,         \* the user field of meeting events
    MaxEvents,      \* bound on the events the backend publishes
    MaxDups         \* bound on events delivered a second time

ASSUME EventAssumption ==
    /\ Meetings # {}
    /\ NoUser \notin Users
    /\ MaxEvents \in Nat
    /\ MaxDups \in Nat

VARIABLES
    bstate,     \* backend: "none", "running", "ended" or "destroyed"
    busers,     \* backend: the users in each meeting
    recorded,   \* the gateway's Create has returned for the meeting
    row,        \* replica: is there a meetings row for the internal id
    running,    \* replica: Meeting.Running of the row
    attendees,  \* replica: Meeting.Attendees of the row, by internal user id
    chan,       \* events published and not yet delivered, in order
    sent,       \* number of events published
    dups,       \* number of events delivered twice
    hpc,        \* the handler: "idle", "await" (in awaitInternalMeeting)
                \* or "crashed"
    cur         \* the event the handler is awaiting a row for

vars == <<bstate, busers, recorded, row, running, attendees, chan, sent,
          dups, hpc, cur>>

EventTypes == {"MeetingCreated", "MeetingEnded", "MeetingDestroyed",
               "UserJoinedMeeting", "UserLeftMeeting"}
Events == [type : EventTypes, m : Meetings, u : Users \cup {NoUser}]
NoEvent == [type |-> "MeetingCreated", m |-> CHOOSE m \in Meetings : TRUE,
            u |-> NoUser]

TypeOK ==
    /\ bstate \in [Meetings -> {"none", "running", "ended", "destroyed"}]
    /\ busers \in [Meetings -> SUBSET Users]
    /\ recorded \in [Meetings -> BOOLEAN]
    /\ row \in [Meetings -> BOOLEAN]
    /\ running \in [Meetings -> BOOLEAN]
    /\ attendees \in [Meetings -> Seq(Users)]
    /\ chan \in Seq(Events)
    /\ sent \in 0..MaxEvents
    /\ dups \in 0..MaxDups
    /\ hpc \in {"idle", "await", "crashed"}
    /\ cur \in Events

-----------------------------------------------------------------------------
(* The users an attendee list names. *)
AttendeeSet(s) == {s[k] : k \in DOMAIN s}

(* Publishing an event on the backend's stream. *)
Publish(type, m, u) ==
    /\ sent < MaxEvents
    /\ sent' = sent + 1
    /\ chan' = Append(chan, [type |-> type, m |-> m, u |-> u])

(* Remove user u from an attendee list: the filter loop of               *)
(* onUserLeftMeeting, F[i] being the list filtered after i iterations.    *)
WithoutUser(s, u) ==
    LET F[i \in 0..Len(s)] ==
          IF i = 0 THEN <<>>
          ELSE IF s[i] # u THEN Append(F[i - 1], s[i]) ELSE F[i - 1]
    IN  F[Len(s)]

(***************************************************************************)
(* Mutants of the handlers, each used to show that a property of           *)
(* MC_EventHandler.cfg notices it.                                         *)
(***************************************************************************)
(* onUserLeftMeeting saves the row without filtering the leaving user out. *)
HandleEventKeepsLeaver(e) ==
    \/ /\ e.type = "UserJoinedMeeting"
       /\ attendees' = [attendees EXCEPT ![e.m] =
                          IF row[e.m] THEN Append(@, e.u) ELSE @]
       /\ UNCHANGED <<row, running, hpc, cur>>
    \/ /\ e.type = "UserLeftMeeting"
       /\ UNCHANGED <<row, running, attendees, hpc, cur>>
    \/ /\ e.type = "MeetingDestroyed"
       /\ row' = [row EXCEPT ![e.m] = FALSE]
       /\ UNCHANGED <<running, attendees, hpc, cur>>
    \/ /\ e.type \in {"MeetingCreated", "MeetingEnded"}
       /\ hpc' = "await"
       /\ cur' = e
       /\ UNCHANGED <<row, running, attendees>>

(* onMeetingEnded clears the attendees but forgets to reset Running. *)
AwaitFoundKeepsRunning ==
    /\ hpc = "await"
    /\ row[cur.m]
    /\ IF cur.type = "MeetingCreated"
         THEN /\ running' = [running EXCEPT ![cur.m] = TRUE]
              /\ UNCHANGED attendees
         ELSE /\ UNCHANGED running
              /\ attendees' = [attendees EXCEPT ![cur.m] = <<>>]
    /\ hpc' = "idle"
    /\ UNCHANGED <<bstate, busers, recorded, row, chan, sent, dups, cur>>

-----------------------------------------------------------------------------
Init ==
    /\ bstate = [m \in Meetings |-> "none"]
    /\ busers = [m \in Meetings |-> {}]
    /\ recorded = [m \in Meetings |-> FALSE]
    /\ row = [m \in Meetings |-> FALSE]
    /\ running = [m \in Meetings |-> FALSE]
    /\ attendees = [m \in Meetings |-> <<>>]
    /\ chan = <<>>
    /\ sent = 0
    /\ dups = 0
    /\ hpc = "idle"
    /\ cur = NoEvent

(* The backend creates the meeting for the gateway's create request. *)
BackendCreate(m) ==
    /\ bstate[m] = "none"
    /\ bstate' = [bstate EXCEPT ![m] = "running"]
    /\ Publish("MeetingCreated", m, NoUser)
    /\ UNCHANGED <<busers, recorded, row, running, attendees, dups, hpc, cur>>

(* Backend.Create after the backend answered: CreateMeetingState inserts    *)
(* the row with the meeting of the create response (not running, no         *)
(* attendees); when that insert fails Create returns the error and no row   *)
(* is written.                                                              *)
GatewayRecord(m) ==
    /\ bstate[m] # "none"
    /\ ~recorded[m]
    /\ recorded' = [recorded EXCEPT ![m] = TRUE]
    /\ \/ /\ row' = [row EXCEPT ![m] = TRUE]
          /\ running' = [running EXCEPT ![m] = FALSE]
          /\ attendees' = [attendees EXCEPT ![m] = <<>>]
       \/ UNCHANGED <<row, running, attendees>>
    /\ UNCHANGED <<bstate, busers, chan, sent, dups, hpc, cur>>

(* A user joins the running meeting on the backend. *)
BackendJoin(m, u) ==
    /\ bstate[m] = "running"
    /\ u \notin busers[m]
    /\ busers' = [busers EXCEPT ![m] = @ \cup {u}]
    /\ Publish("UserJoinedMeeting", m, u)
    /\ UNCHANGED <<bstate, recorded, row, running, attendees, dups, hpc, cur>>

(* A user leaves the meeting on the backend. *)
BackendLeave(m, u) ==
    /\ u \in busers[m]
    /\ busers' = [busers EXCEPT ![m] = @ \ {u}]
    /\ Publish("UserLeftMeeting", m, u)
    /\ UNCHANGED <<bstate, recorded, row, running, attendees, dups, hpc, cur>>

(* The meeting ends on the backend; everybody is out. *)
BackendEnd(m) ==
    /\ bstate[m] = "running"
    /\ bstate' = [bstate EXCEPT ![m] = "ended"]
    /\ busers' = [busers EXCEPT ![m] = {}]
    /\ Publish("MeetingEnded", m, NoUser)
    /\ UNCHANGED <<recorded, row, running, attendees, dups, hpc, cur>>

(* The backend discards the ended meeting. *)
BackendDestroy(m) ==
    /\ bstate[m] = "ended"
    /\ bstate' = [bstate EXCEPT ![m] = "destroyed"]
    /\ Publish("MeetingDestroyed", m, NoUser)
    /\ UNCHANGED <<busers, recorded, row, running, attendees, dups, hpc, cur>>

(* Dispatch of the head event of the stream.  The transaction of            *)
(* onUserJoinedMeeting, onUserLeftMeeting and onMeetingDestroyed reads and  *)
(* writes the row at once; MeetingCreated and MeetingEnded enter            *)
(* awaitInternalMeeting.  With redeliver the event stays at the head of the *)
(* stream and is delivered again.                                          *)
HandleEvent(e) ==
    \/ /\ e.type = "UserJoinedMeeting"
       /\ attendees' = [attendees EXCEPT ![e.m] =
                          IF row[e.m] THEN Append(@, e.u) ELSE @]
       /\ UNCHANGED <<row, running, hpc, cur>>
    \/ /\ e.type = "UserLeftMeeting"
       /\ attendees' = [attendees EXCEPT ![e.m] =
                          IF row[e.m] THEN WithoutUser(@, e.u) ELSE @]
       /\ UNCHANGED <<row, running, hpc, cur>>
    \/ /\ e.type = "MeetingDestroyed"
       /\ row' = [row EXCEPT ![e.m] = FALSE]
       /\ UNCHANGED <<running, attendees, hpc, cur>>
    \/ /\ e.type \in {"MeetingCreated", "MeetingEnded"}
       /\ hpc' = "await"
       /\ cur' = e
       /\ UNCHANGED <<row, running, attendees>>

(* Mutant of Dispatch: a redelivery that is not counted against MaxDups. *)
DispatchUncountedRedelivery ==
    /\ hpc = "idle"
    /\ chan # <<>>
    /\ HandleEvent(Head(chan))
    /\ \/ /\ chan' = Tail(chan)
          /\ UNCHANGED dups
       \/ /\ dups' = dups + 1
          /\ UNCHANGED chan
    /\ UNCHANGED <<bstate, busers, recorded, sent>>

Dispatch ==
    /\ hpc = "idle"
    /\ chan # <<>>
    /\ HandleEvent(Head(chan))
    /\ \/ /\ chan' = Tail(chan)
          /\ UNCHANGED dups
       \/ /\ dups < MaxDups
          /\ dups' = dups + 1
          /\ UNCHANGED chan
    /\ UNCHANGED <<bstate, busers, recorded, sent>>

(* awaitInternalMeeting finds the row: onMeetingCreated sets Running,       *)
(* onMeetingEnded clears Running and the attendees; Save and Commit.        *)
AwaitFound ==
    /\ hpc = "await"
    /\ row[cur.m]
    /\ IF cur.type = "MeetingCreated"
         THEN /\ running' = [running EXCEPT ![cur.m] = TRUE]
              /\ UNCHANGED attendees
         ELSE /\ running' = [running EXCEPT ![cur.m] = FALSE]
              /\ attendees' = [attendees EXCEPT ![cur.m] = <<>>]
    /\ hpc' = "idle"
    /\ UNCHANGED <<bstate, busers, recorded, row, chan, sent, dups, cur>>

(* Mutant of AwaitTimeout: awaitInternalMeeting polls for the row without *)
(* a deadline, finding nothing each time.                                   *)
AwaitWithoutDeadline ==
    /\ hpc = "await"
    /\ ~row[cur.m]
    /\ UNCHANGED vars

(* The 5 s pass without a row: onMeetingCreated logs and drops the event;  *)
(* onMeetingEnded logs, then dereferences the nil meeting state, and the    *)
(* panic ends the agent.                                                    *)
AwaitTimeout ==
    /\ hpc = "await"
    /\ ~row[cur.m]
    /\ hpc' = IF cur.type = "MeetingCreated" THEN "idle" ELSE "crashed"
    /\ UNCHANGED <<bstate, busers, recorded, row, running, attendees, chan,
                   sent, dups, cur>>

Next ==
    \/ \E m \in Meetings :
         \/ BackendCreate(m) \/ GatewayRecord(m)
         \/ BackendEnd(m) \/ BackendDestroy(m)
         \/ \E u \in Users : BackendJoin(m, u) \/ BackendLeave(m, u)
    \/ Dispatch
    \/ AwaitFound
    \/ AwaitTimeout

(* The agent's one goroutine takes the events off the subscription and    *)
(* dispatches them as long as it lives, and awaitInternalMeeting returns    *)
(* by its 5 s deadline.  The backend and the gateway need no fairness: a   *)
(* meeting may never be recorded.                                           *)
Fairness == WF_vars(Dispatch) /\ WF_vars(AwaitFound \/ AwaitTimeout)

Spec == Init /\ [][Next]_vars /\ Fairness

-----------------------------------------------------------------------------
(* Every published event has been handled and the agent is idle. *)
Quiescent == chan = <<>> /\ hpc = "idle"

(* Once the agent has caught up with the stream, every attendee the        *)
(* replica lists for a meeting is in that meeting on the backend: joins    *)
(* and leaves, ends and the gateway's insert, in whatever order they raced, *)
(* leave no stale attendee behind.                                         *)
AttendeesSound ==
    Quiescent => \A m \in Meetings :
                   row[m] => AttendeeSet(attendees[m]) \subseteq busers[m]

(* Once the agent has caught up, a replica row marked running belongs to a *)
(* meeting that is running on the backend.                                 *)
RunningSound ==
    Quiescent => \A m \in Meetings : row[m] /\ running[m] =>
                                       bstate[m] = "running"

(* The agent keeps up with the stream: whenever an event is pending or     *)
(* being awaited, the agent later has handled every event (or has died of  *)
(* the nil dereference AgentNeverPanics is about); no event whose row      *)
(* never appears stalls it.                                                 *)
CatchesUp ==
    (chan # <<>> \/ hpc = "await") ~> (Quiescent \/ hpc = "crashed")

(* Spec property 5: after any sequence of event handlers the attendee list *)
(* has no duplicate internal user id (events may be delivered twice).      *)
NoDuplicateAttendees ==
    \A m \in Meetings : \A i, j \in DOMAIN attendees[m] :
        i # j => attendees[m][i] # attendees[m][j]

(* Spec section 4.4: an event for a meeting unknown after the 5 s wait is   *)
(* logged and dropped; the agent keeps running.                            *)
AgentNeverPanics == hpc # "crashed"

=============================================================================

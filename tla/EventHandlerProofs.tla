------------------------- MODULE EventHandlerProofs -------------------------
(***************************************************************************)
(* Proof that the node agent's replica never keeps a meeting running that  *)
(* the node has ended, once the agent has caught up (RunningSound), for    *)
(* every set of meetings and users and every bound on the stream.          *)
(*                                                                         *)
(* RunningSound speaks of quiescent states only, so it is not inductive.   *)
(* RunInv says what holds in between, through the events still pending     *)
(* (in the stream, or awaited by the handler):                             *)
(*   - a meeting the node has not created has no row and no pending        *)
(*     event;                                                              *)
(*   - a meeting the node has ended whose MeetingEnded is no longer        *)
(*     pending has no row marked running and no pending MeetingCreated,    *)
(*     unless the agent has crashed;                                       *)
(*   - in the stream a meeting's MeetingCreated comes before its           *)
(*     MeetingEnded, and while MeetingEnded is awaited no MeetingCreated   *)
(*     of the meeting is left in the stream.                               *)
(* The order is what the single subscription and the at-the-head          *)
(* redelivery of Dispatch guarantee.                                       *)
(***************************************************************************)
EXTENDS EventHandler, TLAPS

(* An event of type t for meeting m is in the sequence s. *)
InSeq(s, t, m) == \E i \in 1..Len(s) : s[i].type = t /\ s[i].m = m

(* In s, every MeetingCreated of meeting m precedes its MeetingEnded. *)
Ordered(s, m) ==
    \A i, j \in 1..Len(s) :
        /\ s[i].type = "MeetingEnded" /\ s[i].m = m
        /\ s[j].type = "MeetingCreated" /\ s[j].m = m
        => j < i

InChan(t, m) == InSeq(chan, t, m)

(* The handler awaits the row for an event of type t for meeting m. *)
Awaiting(t, m) == hpc = "await" /\ cur.type = t /\ cur.m = m

Pending(t, m) == InChan(t, m) \/ Awaiting(t, m)

(* The part of TypeOK the proof needs; attendees, busers and cur are left *)
(* out (the proof reads only the type and meeting of cur).                 *)
StreamTypeOK ==
    /\ bstate \in [Meetings -> {"none", "running", "ended", "destroyed"}]
    /\ row \in [Meetings -> BOOLEAN]
    /\ running \in [Meetings -> BOOLEAN]
    /\ chan \in Seq(Events)
    /\ sent \in Nat
    /\ dups \in Nat
    /\ hpc \in {"idle", "await", "crashed"}
    /\ hpc = "await" => cur.type \in {"MeetingCreated", "MeetingEnded"}

MeetingInv(m) ==
    /\ bstate[m] = "none" =>
          /\ ~row[m]
          /\ ~Pending("MeetingCreated", m)
          /\ ~Pending("MeetingEnded", m)
    /\ /\ bstate[m] \in {"ended", "destroyed"}
       /\ hpc # "crashed"
       /\ ~Pending("MeetingEnded", m)
       => /\ ~(row[m] /\ running[m])
          /\ ~Pending("MeetingCreated", m)
    /\ Ordered(chan, m)
    /\ Awaiting("MeetingEnded", m) => ~InChan("MeetingCreated", m)

RunInv == StreamTypeOK /\ \A m \in Meetings : MeetingInv(m)

-----------------------------------------------------------------------------
(* What appending an event adds to the events of a sequence. *)
LEMMA InSeqAppend ==
    ASSUME NEW s \in Seq(Events), NEW e \in Events, NEW t, NEW m
    PROVE  InSeq(Append(s, e), t, m) <=> InSeq(s, t, m) \/ (e.type = t /\ e.m = m)
BY DEF InSeq

(* Taking the head off a sequence loses no other event. *)
LEMMA InSeqTail ==
    ASSUME NEW s \in Seq(Events), s # <<>>, NEW t, NEW m
    PROVE  /\ InSeq(Tail(s), t, m) => InSeq(s, t, m)
           /\ InSeq(s, t, m) /\ ~(Head(s).type = t /\ Head(s).m = m)
              => InSeq(Tail(s), t, m)
BY DEF InSeq

LEMMA OrderedAppend ==
    ASSUME NEW s \in Seq(Events), NEW e \in Events, NEW m, Ordered(s, m),
           e.type = "MeetingCreated" /\ e.m = m => ~InSeq(s, "MeetingEnded", m)
    PROVE  Ordered(Append(s, e), m)
BY DEF Ordered, InSeq

LEMMA OrderedTail ==
    ASSUME NEW s \in Seq(Events), s # <<>>, NEW m, Ordered(s, m)
    PROVE  Ordered(Tail(s), m)
BY DEF Ordered

(* At the head of an ordered stream, a meeting's MeetingEnded has no       *)
(* MeetingCreated of the meeting behind it, and a MeetingCreated leaves    *)
(* the meeting's MeetingEnded in the tail.                                 *)
LEMMA OrderedHead ==
    ASSUME NEW s \in Seq(Events), s # <<>>, NEW m, Ordered(s, m)
    PROVE  /\ Head(s).type = "MeetingEnded" /\ Head(s).m = m
              => ~InSeq(s, "MeetingCreated", m)
           /\ Head(s).type = "MeetingCreated" /\ Head(s).m = m
              => ~InSeq(s, "MeetingEnded", m) \/ InSeq(Tail(s), "MeetingEnded", m)
BY DEF Ordered, InSeq
-----------------------------------------------------------------------------
LEMMA InitRunInv == Init => RunInv
BY EventAssumption DEF Init, RunInv, StreamTypeOK, MeetingInv, Pending,
                       InChan, InSeq, Awaiting, Ordered

(* A step of the backend publishes an event for its own meeting a: it     *)
(* leaves every other meeting's invariant alone, and for a it moves        *)
(* bstate on in step with what it publishes.                               *)
LEMMA BackendStep ==
    ASSUME RunInv, NEW a \in Meetings, NEW m \in Meetings,
           \/ BackendCreate(a)
           \/ BackendEnd(a)
           \/ BackendDestroy(a)
           \/ \E u \in Users : BackendJoin(a, u) \/ BackendLeave(a, u)
    PROVE  MeetingInv(m)'
<1> USE EventAssumption
<1>1. /\ chan \in Seq(Events)
      /\ Ordered(chan, m)
      /\ MeetingInv(m)
  BY DEF RunInv, StreamTypeOK, MeetingInv
<1>2. CASE BackendCreate(a)
  <2>1. [type |-> "MeetingCreated", m |-> a, u |-> NoUser] \in Events
    BY DEF Events, EventTypes
  <2>2. Ordered(chan', m)
    BY <1>1, <1>2, <2>1, OrderedAppend
       DEF BackendCreate, Publish, RunInv, MeetingInv, Pending, InChan
  <2>3. \A t : InChan(t, m)' <=> InChan(t, m) \/ (t = "MeetingCreated" /\ a = m)
    BY <1>1, <1>2, <2>1, InSeqAppend DEF BackendCreate, Publish, InChan
  <2>. QED
    BY <1>1, <1>2, <2>2, <2>3
       DEF BackendCreate, MeetingInv, Pending, Awaiting, RunInv, StreamTypeOK
<1>3. CASE BackendEnd(a)
  <2>1. [type |-> "MeetingEnded", m |-> a, u |-> NoUser] \in Events
    BY DEF Events, EventTypes
  <2>2. Ordered(chan', m)
    BY <1>1, <1>3, <2>1, OrderedAppend DEF BackendEnd, Publish
  <2>3. \A t : InChan(t, m)' <=> InChan(t, m) \/ (t = "MeetingEnded" /\ a = m)
    BY <1>1, <1>3, <2>1, InSeqAppend DEF BackendEnd, Publish, InChan
  <2>. QED
    BY <1>1, <1>3, <2>2, <2>3
       DEF BackendEnd, MeetingInv, Pending, Awaiting, RunInv, StreamTypeOK
<1>4. CASE BackendDestroy(a)
  <2>1. [type |-> "MeetingDestroyed", m |-> a, u |-> NoUser] \in Events
    BY DEF Events, EventTypes
  <2>2. Ordered(chan', m)
    BY <1>1, <1>4, <2>1, OrderedAppend DEF BackendDestroy, Publish
  <2>3. \A t \in {"MeetingCreated", "MeetingEnded"} : InChan(t, m)' <=> InChan(t, m)
    BY <1>1, <1>4, <2>1, InSeqAppend DEF BackendDestroy, Publish, InChan
  <2>. QED
    BY <1>1, <1>4, <2>2, <2>3
       DEF BackendDestroy, MeetingInv, Pending, Awaiting, RunInv, StreamTypeOK
<1>5. CASE \E u \in Users : BackendJoin(a, u) \/ BackendLeave(a, u)
  <2>1. PICK u \in Users : BackendJoin(a, u) \/ BackendLeave(a, u)
    BY <1>5
  <2>2. PICK ty \in {"UserJoinedMeeting", "UserLeftMeeting"} :
          /\ chan' = Append(chan, [type |-> ty, m |-> a, u |-> u])
          /\ UNCHANGED <<bstate, row, running, hpc, cur>>
    BY <2>1 DEF BackendJoin, BackendLeave, Publish
  <2>3. [type |-> ty, m |-> a, u |-> u] \in Events
    BY DEF Events, EventTypes
  <2>4. Ordered(chan', m)
    BY <1>1, <2>2, <2>3, OrderedAppend
  <2>5. \A t \in {"MeetingCreated", "MeetingEnded"} : InChan(t, m)' <=> InChan(t, m)
    BY <1>1, <2>2, <2>3, InSeqAppend DEF InChan
  <2>. QED
    BY <1>1, <2>2, <2>4, <2>5 DEF MeetingInv, Pending, Awaiting
<1>. QED  BY <1>2, <1>3, <1>4, <1>5

(* The gateway's insert writes a row that is not running, and only for a   *)
(* meeting the backend has created.                                        *)
LEMMA GatewayStep ==
    ASSUME RunInv, NEW a \in Meetings, NEW m \in Meetings, GatewayRecord(a)
    PROVE  MeetingInv(m)'
BY DEF GatewayRecord, RunInv, StreamTypeOK, MeetingInv, Pending, InChan,
       Awaiting

(* Dispatch moves the head event of the stream into the handler (or        *)
(* handles it at once): nothing becomes pending that was not in the        *)
(* stream, a MeetingEnded stays pending, and the order is kept.            *)
LEMMA DispatchStep ==
    ASSUME RunInv, NEW m \in Meetings, Dispatch
    PROVE  MeetingInv(m)'
<1> DEFINE e == Head(chan)
<1>1. /\ chan \in Seq(Events)
      /\ chan # <<>>
      /\ e \in Events
      /\ hpc = "idle"
      /\ chan' \in {chan, Tail(chan)}
      /\ HandleEvent(e)
      /\ UNCHANGED bstate
  BY DEF Dispatch, RunInv, StreamTypeOK
<1>2. /\ UNCHANGED running
      /\ row'[m] => row[m]
      /\ hpc' \in {"idle", "await"}
      /\ hpc' = "await" => cur' = e
      /\ e.type \in {"MeetingCreated", "MeetingEnded"} => hpc' = "await"
  BY <1>1 DEF HandleEvent, RunInv, StreamTypeOK
<1>3. \A t : InChan(t, m)' => InChan(t, m)
  BY <1>1, InSeqTail DEF InChan
<1>4. \A t : Pending(t, m)' => InChan(t, m)
  <2>1. \A t : Awaiting(t, m)' => InChan(t, m)
    BY <1>1, <1>2 DEF Awaiting, InChan, InSeq
  <2>. QED  BY <1>3, <2>1 DEF Pending
<1>5. InChan("MeetingEnded", m) => Pending("MeetingEnded", m)'
  <2>1. CASE e.type = "MeetingEnded" /\ e.m = m
    BY <1>2, <2>1 DEF Pending, Awaiting
  <2>2. CASE ~(e.type = "MeetingEnded" /\ e.m = m)
    BY <1>1, <2>2, InSeqTail DEF Pending, InChan
  <2>. QED  BY <2>1, <2>2
<1>6. Ordered(chan', m)
  BY <1>1, OrderedTail DEF RunInv, MeetingInv
<1>7. Awaiting("MeetingEnded", m)' => ~InChan("MeetingCreated", m)'
  <2>1. Awaiting("MeetingEnded", m)' => ~InChan("MeetingCreated", m)
    BY <1>1, <1>2, OrderedHead DEF RunInv, MeetingInv, Awaiting, InChan
  <2>. QED  BY <1>3, <2>1
<1>8. ~Awaiting("MeetingEnded", m) /\ ~Awaiting("MeetingCreated", m)
  BY <1>1 DEF Awaiting
<1>. QED
  BY <1>1, <1>2, <1>4, <1>5, <1>6, <1>7, <1>8
     DEF RunInv, MeetingInv, Pending

(* The row is found: a MeetingCreated is only awaited while its meeting's  *)
(* MeetingEnded is still in the stream, and a MeetingEnded clears Running. *)
LEMMA AwaitFoundStep ==
    ASSUME RunInv, NEW m \in Meetings, AwaitFound
    PROVE  MeetingInv(m)'
<1>1. /\ hpc = "await"
      /\ hpc' = "idle"
      /\ row[cur.m]
      /\ cur.type \in {"MeetingCreated", "MeetingEnded"}
      /\ UNCHANGED <<bstate, row, chan, cur>>
  BY DEF AwaitFound, RunInv, StreamTypeOK
<1>2. CASE cur.m # m
  BY <1>1, <1>2 DEF AwaitFound, RunInv, StreamTypeOK, MeetingInv, Pending,
                    InChan, Awaiting
<1>3. CASE cur.m = m /\ cur.type = "MeetingCreated"
  BY <1>1, <1>3 DEF AwaitFound, RunInv, StreamTypeOK, MeetingInv, Pending,
                    InChan, Awaiting
<1>4. CASE cur.m = m /\ cur.type = "MeetingEnded"
  BY <1>1, <1>4 DEF AwaitFound, RunInv, StreamTypeOK, MeetingInv, Pending,
                    InChan, Awaiting
<1>. QED  BY <1>1, <1>2, <1>3, <1>4

(* The wait runs out: a MeetingCreated is dropped, and only while its      *)
(* meeting's MeetingEnded is in the stream; a MeetingEnded crashes the     *)
(* agent.                                                                  *)
LEMMA AwaitTimeoutStep ==
    ASSUME RunInv, NEW m \in Meetings, AwaitTimeout
    PROVE  MeetingInv(m)'
<1>1. /\ hpc = "await"
      /\ hpc' = IF cur.type = "MeetingCreated" THEN "idle" ELSE "crashed"
      /\ UNCHANGED <<bstate, row, running, chan, cur>>
  BY DEF AwaitTimeout
<1>2. CASE cur.m # m
  BY <1>1, <1>2 DEF RunInv, MeetingInv, Pending, InChan, Awaiting
<1>3. CASE cur.m = m
  BY <1>1, <1>3 DEF RunInv, MeetingInv, Pending, InChan, Awaiting
<1>. QED  BY <1>2, <1>3

LEMMA StreamTypeStep ==
    ASSUME RunInv, [Next]_vars
    PROVE  StreamTypeOK'
<1> USE EventAssumption DEF RunInv, StreamTypeOK
<1>1. ASSUME NEW a \in Meetings,
             \/ BackendCreate(a) \/ BackendEnd(a) \/ BackendDestroy(a)
             \/ \E u \in Users : BackendJoin(a, u) \/ BackendLeave(a, u)
      PROVE  StreamTypeOK'
  <2>1. \A ty \in EventTypes, u \in Users \cup {NoUser} :
          [type |-> ty, m |-> a, u |-> u] \in Events
    BY DEF Events
  <2>2. CASE BackendCreate(a)
    BY <2>1, <2>2 DEF BackendCreate, Publish, EventTypes
  <2>3. CASE BackendEnd(a)
    BY <2>1, <2>3 DEF BackendEnd, Publish, EventTypes
  <2>4. CASE BackendDestroy(a)
    BY <2>1, <2>4 DEF BackendDestroy, Publish, EventTypes
  <2>5. CASE \E u \in Users : BackendJoin(a, u)
    BY <2>1, <2>5 DEF BackendJoin, Publish, EventTypes
  <2>6. CASE \E u \in Users : BackendLeave(a, u)
    BY <2>1, <2>6 DEF BackendLeave, Publish, EventTypes
  <2>. QED  BY <1>1, <2>2, <2>3, <2>4, <2>5, <2>6
<1>2. ASSUME NEW a \in Meetings, GatewayRecord(a) PROVE StreamTypeOK'
  BY <1>2 DEF GatewayRecord
<1>3. CASE Dispatch
  <2>1. /\ chan' \in {chan, Tail(chan)}
        /\ chan # <<>>
        /\ dups' \in {dups, dups + 1}
        /\ UNCHANGED <<bstate, sent>>
        /\ HandleEvent(Head(chan))
    BY <1>3 DEF Dispatch
  <2>2. chan' \in Seq(Events)
    <3>1. chan \in Seq(Events) /\ chan # <<>>
      BY <2>1
    <3>2. Tail(chan) \in Seq(Events)
      BY <3>1
    <3>. QED  BY <2>1, <3>1, <3>2
  <2>3. /\ row' \in [Meetings -> BOOLEAN]
        /\ running' \in [Meetings -> BOOLEAN]
        /\ hpc' \in {"idle", "await", "crashed"}
        /\ hpc' = "await" => cur'.type \in {"MeetingCreated", "MeetingEnded"}
    <3>1. hpc = "idle"
      BY <1>3 DEF Dispatch
    <3>. QED  BY <2>1, <3>1 DEF HandleEvent
  <2>. QED  BY <2>1, <2>2, <2>3
<1>4. CASE AwaitFound \/ AwaitTimeout
  BY <1>4 DEF AwaitFound, AwaitTimeout
<1>5. CASE UNCHANGED vars
  BY <1>5 DEF vars
<1>. QED  BY <1>1, <1>2, <1>3, <1>4, <1>5 DEF Next

LEMMA NextRunInv == RunInv /\ [Next]_vars => RunInv'
<1> SUFFICES ASSUME RunInv, [Next]_vars PROVE RunInv'
  OBVIOUS
<1>1. StreamTypeOK'
  BY StreamTypeStep
<1>2. ASSUME NEW m \in Meetings PROVE MeetingInv(m)'
  <2>1. CASE \E a \in Meetings :
               \/ BackendCreate(a) \/ BackendEnd(a) \/ BackendDestroy(a)
               \/ \E u \in Users : BackendJoin(a, u) \/ BackendLeave(a, u)
    BY <2>1, BackendStep
  <2>2. CASE \E a \in Meetings : GatewayRecord(a)
    BY <2>2, GatewayStep
  <2>3. CASE Dispatch
    BY <2>3, DispatchStep
  <2>4. CASE AwaitFound
    BY <2>4, AwaitFoundStep
  <2>5. CASE AwaitTimeout
    BY <2>5, AwaitTimeoutStep
  <2>6. CASE UNCHANGED vars
    BY <2>6 DEF vars, RunInv, MeetingInv, Pending, InChan, Awaiting
  <2>. QED  BY <2>1, <2>2, <2>3, <2>4, <2>5, <2>6 DEF Next
<1>. QED  BY <1>1, <1>2 DEF RunInv

LEMMA RunInvImpliesRunningSound == RunInv => RunningSound
BY DEF RunInv, MeetingInv, RunningSound, Quiescent, Pending, InChan, InSeq,
       Awaiting, StreamTypeOK

-----------------------------------------------------------------------------
(* Once the agent is idle with the stream drained, a row the replica marks *)
(* running is a meeting running on the backend, for every number of        *)
(* meetings and users and every bound on events and redeliveries, in every *)
(* interleaving of the backend, the gateway's insert and the handlers'     *)
(* awaitInternalMeeting waits and timeouts.                                *)
THEOREM RunningSoundProved == Spec => []RunningSound
BY InitRunInv, NextRunInv, RunInvImpliesRunningSound, PTL DEF Spec
=============================================================================

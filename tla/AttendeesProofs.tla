--------------------------- MODULE AttendeesProofs ---------------------------
(***************************************************************************)
(* Proofs that the node agent's replica is well typed (TypeOK) and lists   *)
(* no stale attendee once the agent has caught up (AttendeesSound), for    *)
(* every set of meetings and users and every bound on the stream.          *)
(*                                                                         *)
(* Both rest on what onUserLeftMeeting's filter loop returns.  WithoutUser *)
(* is a recursive function over the prefixes of the list; FilterExists     *)
(* shows by a least counterexample (WFMin on the naturals) that the        *)
(* function the definition chooses exists, and WithoutUserType that it     *)
(* yields a list of the old list's users other than the one who left.      *)
(*                                                                         *)
(* AttendeesSound speaks of quiescent states only.  AttInv says what       *)
(* holds in between: an attendee of a recorded meeting who is no longer in *)
(* the meeting on the node has a removal pending: a UserLeft of that user *)
(* or the meeting's MeetingEnded later in the stream, or the               *)
(* MeetingEnded the handler awaits (StaleCovered); and every UserJoined in *)
(* the stream of a user who is no longer in the meeting is followed by     *)
(* such a removal (JoinsCovered), so handling the join, or handling it     *)
(* again when it is redelivered, leaves a removal behind it.               *)
(***************************************************************************)
EXTENDS EventHandler, WellFoundedInduction, TLAPS

(* Every non-empty set of naturals has a least element. *)
LEMMA LeastNat ==
    ASSUME NEW T, T \subseteq Nat, T # {}
    PROVE  \E n \in T : \A k \in T : n <= k
<1> DEFINE R == OpToRel(<, Nat)
<1>1. IsWellFoundedOn(R, Nat)
  BY NatLessThanWellFounded
<1>2. \E x \in T : \A y \in T : ~(<<y, x>> \in R)
  BY <1>1, WFMin, Zenon
<1>3. \A x, y \in T : ~(<<y, x>> \in R) => x <= y
  BY DEF OpToRel
<1>. QED  BY <1>2, <1>3

(* One step of the filter loop over s, on the prefix results G. *)
FilterStep(s, u, G, i) ==
    IF i = 0 THEN <<>>
    ELSE IF s[i] # u THEN Append(G[i-1], s[i]) ELSE G[i-1]

(* The loop's results for the prefixes of s up to length k exist. *)
FilterOk(S, s, u, k) ==
    \E G \in [0..k -> Seq(S)] : \A i \in 0..k : G[i] = FilterStep(s, u, G, i)

LEMMA FilterExists ==
    ASSUME NEW S, NEW s \in Seq(S), NEW u, NEW n \in 0..Len(s)
    PROVE  FilterOk(S, s, u, n)
<1> DEFINE C == {k \in 0..Len(s) : ~FilterOk(S, s, u, k)}
<1> SUFFICES ASSUME C # {} PROVE FALSE
  OBVIOUS
<1>1. PICK k \in C : \A j \in C : k <= j
  <2>1. C \subseteq Nat
    OBVIOUS
  <2>. QED  BY <2>1, LeastNat
<1>2. CASE k = 0
  <2>1. [i \in 0..0 |-> <<>>] \in [0..0 -> Seq(S)]
    OBVIOUS
  <2>2. \A i \in 0..0 : [i_1 \in 0..0 |-> <<>>][i]
                        = FilterStep(s, u, [i_1 \in 0..0 |-> <<>>], i)
    BY DEF FilterStep
  <2>3. FilterOk(S, s, u, 0)
    BY <2>1, <2>2 DEF FilterOk
  <2>. QED  BY <1>1, <1>2, <2>3
<1>3. CASE k > 0
  <2>1. FilterOk(S, s, u, k - 1)
    BY <1>1, <1>3
  <2>2. PICK G \in [0..k-1 -> Seq(S)] :
               \A i \in 0..k-1 : G[i] = FilterStep(s, u, G, i)
    BY <2>1 DEF FilterOk
  <2> DEFINE H == [i \in 0..k |-> IF i < k THEN G[i] ELSE FilterStep(s, u, G, k)]
  <2>3. k \in 1..Len(s) /\ s[k] \in S
    BY <1>1, <1>3
  <2>4. FilterStep(s, u, G, k) \in Seq(S)
    BY <1>3, <2>2, <2>3 DEF FilterStep
  <2>5. H \in [0..k -> Seq(S)]
    BY <2>2, <2>4
  <2>6. \A i \in 0..k : FilterStep(s, u, H, i) = FilterStep(s, u, G, i)
    <3> SUFFICES ASSUME NEW i \in 0..k
                 PROVE  FilterStep(s, u, H, i) = FilterStep(s, u, G, i)
      OBVIOUS
    <3>1. CASE i = 0
      BY <3>1 DEF FilterStep
    <3>2. CASE i # 0
      <4>1. H[i - 1] = G[i - 1]
        BY <2>3, <3>2
      <4>. QED  BY <3>2, <4>1 DEF FilterStep
    <3>. QED  BY <3>1, <3>2
  <2>8. \A i \in 0..k : H[i] = FilterStep(s, u, H, i)
    <3> SUFFICES ASSUME NEW i \in 0..k PROVE H[i] = FilterStep(s, u, H, i)
      OBVIOUS
    <3>1. CASE i < k
      <4>1. H[i] = G[i] /\ i \in 0..k-1
        BY <2>3, <3>1
      <4>. QED  BY <2>2, <2>6, <4>1
    <3>2. CASE i = k
      <4>1. H[i] = FilterStep(s, u, G, k)
        BY <2>3, <3>2
      <4>. QED  BY <2>6, <3>2, <4>1
    <3>. QED  BY <2>3, <3>1, <3>2
  <2>7. FilterOk(S, s, u, k)
    BY <2>5, <2>8 DEF FilterOk
  <2>. QED  BY <1>1, <2>7
<1>. QED  BY <1>2, <1>3

(* The filter returns a sequence of the list's users other than u. *)
LEMMA WithoutUserType ==
    ASSUME NEW S, NEW s \in Seq(S), NEW u
    PROVE  /\ WithoutUser(s, u) \in Seq(S)
           /\ AttendeeSet(WithoutUser(s, u)) \subseteq AttendeeSet(s) \ {u}
<1> DEFINE T == AttendeeSet(s) \ {u}
<1>1. \E F : F = [i \in 0..Len(s) |-> FilterStep(s, u, F, i)]
  <2>0. FilterOk(S, s, u, Len(s))
    BY FilterExists
  <2>1. PICK G \in [0..Len(s) -> Seq(S)] :
               \A i \in 0..Len(s) : G[i] = FilterStep(s, u, G, i)
    BY <2>0 DEF FilterOk
  <2>2. G = [i \in 0..Len(s) |-> FilterStep(s, u, G, i)]
    BY <2>1
  <2>. QED  BY <2>2
<1>2. PICK F : /\ F = [i \in 0..Len(s) |-> FilterStep(s, u, F, i)]
               /\ WithoutUser(s, u) = F[Len(s)]
  BY <1>1 DEF WithoutUser, FilterStep
<1>3. \A i \in 0..Len(s) : F[i] \in Seq(T)
  <2> DEFINE C == {i \in 0..Len(s) : F[i] \notin Seq(T)}
  <2> SUFFICES ASSUME C # {} PROVE FALSE
    OBVIOUS
  <2>1. PICK k \in C : \A j \in C : k <= j
    <3>1. C \subseteq Nat
      OBVIOUS
    <3>. QED  BY <3>1, LeastNat
  <2>2. CASE k = 0
    BY <1>2, <2>1, <2>2 DEF FilterStep
  <2>3. CASE k > 0
    <3>1. F[k - 1] \in Seq(T)
      BY <2>1, <2>3
    <3>2. s[k] # u => s[k] \in T
      BY <2>1, <2>3 DEF AttendeeSet
    <3>3. F[k] = IF s[k] # u THEN Append(F[k-1], s[k]) ELSE F[k-1]
      <4>1. F[k] = FilterStep(s, u, F, k)
        BY <1>2, <2>1
      <4>. QED  BY <2>3, <4>1 DEF FilterStep
    <3>4. F[k] \in Seq(T)
      BY <2>1, <2>3, <3>1, <3>2, <3>3
    <3>. QED  BY <2>1, <3>4
  <2>. QED  BY <2>2, <2>3
<1>4. F[Len(s)] \in Seq(T)
  BY <1>3
<1>5. T \subseteq S
  BY DEF AttendeeSet
<1>. QED  BY <1>2, <1>4, <1>5 DEF AttendeeSet
-----------------------------------------------------------------------------
(* Event e removes user u from meeting m's attendees when handled:         *)
(* UserLeftMeeting filters u out, MeetingEnded clears the list.            *)
Removal(e, m, u) ==
    /\ e.m = m
    /\ \/ e.type = "MeetingEnded"
       \/ e.type = "UserLeftMeeting" /\ e.u = u

IsJoin(e, m, u) == e.type = "UserJoinedMeeting" /\ e.m = m /\ e.u = u

(* A removal of u from m is in s after position j. *)
RemovalIn(s, m, u, j) == \E k \in 1..Len(s) : j < k /\ Removal(s[k], m, u)

(* Every join of u to m in s is followed by a removal, unless u is in the  *)
(* meeting (B) on the node.                                                *)
JoinsCovered(s, B, m, u) ==
    \A j \in 1..Len(s) : IsJoin(s[j], m, u) /\ u \notin B => RemovalIn(s, m, u, j)

(* The join and leave events in s name users. *)
ChanUsers(s) ==
    \A j \in 1..Len(s) :
        s[j].type \in {"UserJoinedMeeting", "UserLeftMeeting"} => s[j].u \in Users

AwaitingEnd(m) == hpc = "await" /\ cur.type = "MeetingEnded" /\ cur.m = m

StaleCovered(m, u) ==
    /\ hpc # "crashed" /\ row[m]
    /\ u \in AttendeeSet(attendees[m]) /\ u \notin busers[m]
    => AwaitingEnd(m) \/ RemovalIn(chan, m, u, 0)

CoverInv(m, u) == StaleCovered(m, u) /\ JoinsCovered(chan, busers[m], m, u)

AttInv ==
    /\ TypeOK
    /\ ChanUsers(chan)
    /\ \A m \in Meetings, u \in Users : CoverInv(m, u)

-----------------------------------------------------------------------------
(* Appending an event keeps every pending removal, and adds one when the   *)
(* event is a removal.                                                     *)
LEMMA RemovalInAppend ==
    ASSUME NEW s \in Seq(Events), NEW e \in Events, NEW m, NEW u, NEW j \in Nat
    PROVE  /\ RemovalIn(s, m, u, j) => RemovalIn(Append(s, e), m, u, j)
           /\ Removal(e, m, u) /\ j <= Len(s) => RemovalIn(Append(s, e), m, u, j)
<1>1. RemovalIn(s, m, u, j) => RemovalIn(Append(s, e), m, u, j)
  <2> SUFFICES ASSUME RemovalIn(s, m, u, j) PROVE RemovalIn(Append(s, e), m, u, j)
    OBVIOUS
  <2>1. PICK k \in 1..Len(s) : j < k /\ Removal(s[k], m, u)
    BY DEF RemovalIn
  <2>2. k \in 1..Len(Append(s, e)) /\ Append(s, e)[k] = s[k]
    BY <2>1
  <2>. QED  BY <2>1, <2>2 DEF RemovalIn
<1>2. Removal(e, m, u) /\ j <= Len(s) => RemovalIn(Append(s, e), m, u, j)
  <2> SUFFICES ASSUME Removal(e, m, u), j <= Len(s)
               PROVE  RemovalIn(Append(s, e), m, u, j)
    OBVIOUS
  <2>1. Len(s) + 1 \in 1..Len(Append(s, e)) /\ Append(s, e)[Len(s) + 1] = e
    OBVIOUS
  <2>. QED  BY <2>1 DEF RemovalIn
<1>. QED  BY <1>1, <1>2

(* A removal after position j is one after any earlier position. *)
LEMMA RemovalInLower ==
    ASSUME NEW s \in Seq(Events), NEW m, NEW u, NEW j \in Nat, NEW i \in 0..j,
           RemovalIn(s, m, u, j)
    PROVE  RemovalIn(s, m, u, i)
BY DEF RemovalIn

(* A pending removal that is not the head is after the head. *)
LEMMA RemovalInHead ==
    ASSUME NEW s \in Seq(Events), s # <<>>, NEW m, NEW u,
           RemovalIn(s, m, u, 0), ~Removal(Head(s), m, u)
    PROVE  RemovalIn(s, m, u, 1)
BY DEF RemovalIn

(* Taking the head off shifts the pending removals by one. *)
LEMMA RemovalInTail ==
    ASSUME NEW s \in Seq(Events), s # <<>>, NEW m, NEW u, NEW j \in Nat,
           RemovalIn(s, m, u, j + 1)
    PROVE  RemovalIn(Tail(s), m, u, j)
<1>1. PICK k \in 1..Len(s) : j + 1 < k /\ Removal(s[k], m, u)
  BY DEF RemovalIn
<1>2. k - 1 \in 1..Len(Tail(s)) /\ j < k - 1 /\ Tail(s)[k - 1] = s[k]
  BY <1>1
<1>. QED  BY <1>1, <1>2 DEF RemovalIn

LEMMA JoinsCoveredTail ==
    ASSUME NEW s \in Seq(Events), s # <<>>, NEW m, NEW u, NEW B,
           JoinsCovered(s, B, m, u)
    PROVE  JoinsCovered(Tail(s), B, m, u)
<1> SUFFICES ASSUME NEW j \in 1..Len(Tail(s)), IsJoin(Tail(s)[j], m, u),
                    u \notin B
             PROVE  RemovalIn(Tail(s), m, u, j)
  BY DEF JoinsCovered
<1>1. RemovalIn(s, m, u, j + 1)
  BY DEF JoinsCovered
<1>. QED  BY <1>1, RemovalInTail

LEMMA ChanUsersTail ==
    ASSUME NEW s \in Seq(Events), s # <<>>, ChanUsers(s)
    PROVE  ChanUsers(Tail(s))
BY DEF ChanUsers
-----------------------------------------------------------------------------
LEMMA InitAttInv == Init => AttInv
<1> SUFFICES ASSUME Init PROVE AttInv
  OBVIOUS
<1>1. NoEvent \in Events
  BY EventAssumption DEF NoEvent, Events, EventTypes
<1>2. TypeOK
  BY <1>1, EventAssumption DEF Init, TypeOK
<1>3. \A m \in Meetings, u \in Users : CoverInv(m, u)
  BY DEF Init, CoverInv, StaleCovered, JoinsCovered, AttendeeSet
<1>. QED  BY <1>2, <1>3 DEF Init, AttInv, ChanUsers

(* A step of the node that publishes e keeps the cover of (m, u) when a    *)
(* user leaves the meeting only with a removal published, and a join       *)
(* published puts its user in the meeting.                                 *)
LEMMA PublishCover ==
    ASSUME AttInv, NEW e \in Events, chan' = Append(chan, e),
           UNCHANGED <<row, attendees, hpc, cur>>,
           NEW m \in Meetings, NEW u \in Users,
           u \notin busers'[m] => u \notin busers[m] \/ Removal(e, m, u),
           IsJoin(e, m, u) => u \in busers'[m]
    PROVE  CoverInv(m, u)'
<1>1. chan \in Seq(Events) /\ CoverInv(m, u)
  BY DEF AttInv, TypeOK
<1>2. StaleCovered(m, u)'
  <2> SUFFICES ASSUME hpc' # "crashed", row'[m],
                      u \in AttendeeSet(attendees'[m]), u \notin busers'[m]
               PROVE  AwaitingEnd(m)' \/ RemovalIn(chan', m, u, 0)
    BY DEF StaleCovered
  <2>1. CASE u \notin busers[m]
    <3>1. AwaitingEnd(m) \/ RemovalIn(chan, m, u, 0)
      BY <1>1, <2>1 DEF CoverInv, StaleCovered
    <3>. QED  BY <1>1, <3>1, RemovalInAppend DEF AwaitingEnd
  <2>2. CASE Removal(e, m, u)
    BY <1>1, <2>2, RemovalInAppend
  <2>. QED  BY <2>1, <2>2
<1>3. JoinsCovered(chan', busers'[m], m, u)
  <2> SUFFICES ASSUME NEW j \in 1..Len(chan'), IsJoin(chan'[j], m, u),
                      u \notin busers'[m]
               PROVE  RemovalIn(chan', m, u, j)
    BY DEF JoinsCovered
  <2>1. CASE j \in 1..Len(chan)
    <3>1. chan'[j] = chan[j]
      BY <1>1, <2>1
    <3>2. CASE u \notin busers[m]
      <4>1. RemovalIn(chan, m, u, j)
        BY <1>1, <2>1, <3>1, <3>2 DEF CoverInv, JoinsCovered
      <4>. QED  BY <1>1, <4>1, RemovalInAppend
    <3>3. CASE Removal(e, m, u)
      BY <1>1, <2>1, <3>3, RemovalInAppend
    <3>. QED  BY <3>2, <3>3
  <2>2. CASE j = Len(chan) + 1
    BY <1>1, <2>2
  <2>. QED  BY <1>1, <2>1, <2>2
<1>. QED  BY <1>2, <1>3 DEF CoverInv

(* Publishing keeps the stream typed and its joins and leaves naming users. *)
LEMMA PublishType ==
    ASSUME AttInv, NEW type \in EventTypes, NEW a \in Meetings,
           NEW v \in Users \cup {NoUser},
           type \in {"UserJoinedMeeting", "UserLeftMeeting"} => v \in Users,
           Publish(type, a, v)
    PROVE  /\ chan' \in Seq(Events)
           /\ sent' \in 0..MaxEvents
           /\ ChanUsers(chan')
<1>1. [type |-> type, m |-> a, u |-> v] \in Events
  BY DEF Events
<1>2. chan \in Seq(Events) /\ sent \in 0..MaxEvents /\ ChanUsers(chan)
  BY DEF AttInv, TypeOK
<1>3. chan' = Append(chan, [type |-> type, m |-> a, u |-> v])
  BY DEF Publish
<1>4. chan' \in Seq(Events)
  BY <1>1, <1>2, <1>3
<1>5. sent' \in 0..MaxEvents
  BY <1>2, EventAssumption DEF Publish
<1>6. ChanUsers(chan')
  <2> SUFFICES ASSUME NEW j \in 1..Len(chan'),
                      chan'[j].type \in {"UserJoinedMeeting", "UserLeftMeeting"}
               PROVE  chan'[j].u \in Users
    BY DEF ChanUsers
  <2>1. CASE j \in 1..Len(chan)
    BY <1>2, <1>3, <2>1 DEF ChanUsers
  <2>2. CASE j = Len(chan) + 1
    BY <1>2, <1>3, <2>2
  <2>. QED  BY <1>2, <1>3, <2>1, <2>2
<1>. QED  BY <1>4, <1>5, <1>6

(* A step of the node that publishes the event of (type, a, v) and changes *)
(* nothing of the replica keeps AttInv, under the two conditions of        *)
(* PublishCover on the node's users.                                       *)
LEMMA BackendPublishInv ==
    ASSUME AttInv, NEW type \in EventTypes, NEW a \in Meetings,
           NEW v \in Users \cup {NoUser},
           type \in {"UserJoinedMeeting", "UserLeftMeeting"} => v \in Users,
           Publish(type, a, v),
           UNCHANGED <<recorded, row, running, attendees, dups, hpc, cur>>,
           bstate' \in [Meetings -> {"none", "running", "ended", "destroyed"}],
           busers' \in [Meetings -> SUBSET Users],
           \A m \in Meetings, u \in Users :
              /\ u \notin busers'[m] =>
                    u \notin busers[m]
                    \/ Removal([type |-> type, m |-> a, u |-> v], m, u)
              /\ IsJoin([type |-> type, m |-> a, u |-> v], m, u) =>
                    u \in busers'[m]
    PROVE  AttInv'
<1>1. /\ chan' \in Seq(Events)
      /\ sent' \in 0..MaxEvents
      /\ ChanUsers(chan')
  BY PublishType
<1>2. TypeOK'
  BY <1>1 DEF AttInv, TypeOK
<1>3. ASSUME NEW m \in Meetings, NEW u \in Users
      PROVE  CoverInv(m, u)'
  <2>1. [type |-> type, m |-> a, u |-> v] \in Events
    BY DEF Events
  <2>2. chan' = Append(chan, [type |-> type, m |-> a, u |-> v])
    BY DEF Publish
  <2>. QED  BY <2>1, <2>2, PublishCover
<1>. QED  BY <1>1, <1>2, <1>3 DEF AttInv

LEMMA BackendCreateInv ==
    ASSUME AttInv, NEW a \in Meetings, BackendCreate(a)
    PROVE  AttInv'
<1>1. bstate' \in [Meetings -> {"none", "running", "ended", "destroyed"}]
  BY DEF AttInv, TypeOK, BackendCreate
<1>2. busers' \in [Meetings -> SUBSET Users]
  BY DEF AttInv, TypeOK, BackendCreate
<1>3. \A m \in Meetings, u \in Users :
         /\ u \notin busers'[m] =>
               u \notin busers[m]
               \/ Removal([type |-> "MeetingCreated", m |-> a, u |-> NoUser], m, u)
         /\ IsJoin([type |-> "MeetingCreated", m |-> a, u |-> NoUser], m, u) =>
               u \in busers'[m]
  BY DEF BackendCreate, IsJoin
<1>. QED  BY <1>1, <1>2, <1>3, BackendPublishInv DEF BackendCreate, EventTypes

LEMMA BackendDestroyInv ==
    ASSUME AttInv, NEW a \in Meetings, BackendDestroy(a)
    PROVE  AttInv'
<1>1. bstate' \in [Meetings -> {"none", "running", "ended", "destroyed"}]
  BY DEF AttInv, TypeOK, BackendDestroy
<1>2. busers' \in [Meetings -> SUBSET Users]
  BY DEF AttInv, TypeOK, BackendDestroy
<1>3. \A m \in Meetings, u \in Users :
         /\ u \notin busers'[m] =>
               u \notin busers[m]
               \/ Removal([type |-> "MeetingDestroyed", m |-> a, u |-> NoUser], m, u)
         /\ IsJoin([type |-> "MeetingDestroyed", m |-> a, u |-> NoUser], m, u) =>
               u \in busers'[m]
  BY DEF BackendDestroy, IsJoin
<1>. QED  BY <1>1, <1>2, <1>3, BackendPublishInv DEF BackendDestroy, EventTypes

LEMMA BackendEndInv ==
    ASSUME AttInv, NEW a \in Meetings, BackendEnd(a)
    PROVE  AttInv'
<1>1. bstate' \in [Meetings -> {"none", "running", "ended", "destroyed"}]
  BY DEF AttInv, TypeOK, BackendEnd
<1>2. busers' \in [Meetings -> SUBSET Users]
  BY DEF AttInv, TypeOK, BackendEnd
<1>3. ASSUME NEW m \in Meetings, NEW u \in Users
      PROVE  /\ u \notin busers'[m] =>
                   u \notin busers[m]
                   \/ Removal([type |-> "MeetingEnded", m |-> a, u |-> NoUser], m, u)
             /\ IsJoin([type |-> "MeetingEnded", m |-> a, u |-> NoUser], m, u) =>
                   u \in busers'[m]
  <2>1. CASE m = a
    BY <2>1 DEF Removal, IsJoin
  <2>2. CASE m # a
    BY <2>2 DEF AttInv, TypeOK, BackendEnd, IsJoin
  <2>. QED  BY <2>1, <2>2
<1>. QED  BY <1>1, <1>2, <1>3, BackendPublishInv DEF BackendEnd, EventTypes

LEMMA BackendJoinInv ==
    ASSUME AttInv, NEW a \in Meetings, NEW v \in Users, BackendJoin(a, v)
    PROVE  AttInv'
<1>1. bstate' \in [Meetings -> {"none", "running", "ended", "destroyed"}]
  BY DEF AttInv, TypeOK, BackendJoin
<1>2. busers' \in [Meetings -> SUBSET Users]
  BY DEF AttInv, TypeOK, BackendJoin
<1>3. ASSUME NEW m \in Meetings, NEW u \in Users
      PROVE  /\ u \notin busers'[m] =>
                   u \notin busers[m]
                   \/ Removal([type |-> "UserJoinedMeeting", m |-> a, u |-> v], m, u)
             /\ IsJoin([type |-> "UserJoinedMeeting", m |-> a, u |-> v], m, u) =>
                   u \in busers'[m]
  <2>1. busers[m] \subseteq busers'[m]
    BY DEF AttInv, TypeOK, BackendJoin
  <2>2. IsJoin([type |-> "UserJoinedMeeting", m |-> a, u |-> v], m, u) =>
           u \in busers'[m]
    BY DEF AttInv, TypeOK, BackendJoin, IsJoin
  <2>. QED  BY <2>1, <2>2
<1>. QED  BY <1>1, <1>2, <1>3, BackendPublishInv DEF BackendJoin, EventTypes

LEMMA BackendLeaveInv ==
    ASSUME AttInv, NEW a \in Meetings, NEW v \in Users, BackendLeave(a, v)
    PROVE  AttInv'
<1>1. bstate' \in [Meetings -> {"none", "running", "ended", "destroyed"}]
  BY DEF AttInv, TypeOK, BackendLeave
<1>2. busers' \in [Meetings -> SUBSET Users]
  BY DEF AttInv, TypeOK, BackendLeave
<1>3. ASSUME NEW m \in Meetings, NEW u \in Users
      PROVE  /\ u \notin busers'[m] =>
                   u \notin busers[m]
                   \/ Removal([type |-> "UserLeftMeeting", m |-> a, u |-> v], m, u)
             /\ IsJoin([type |-> "UserLeftMeeting", m |-> a, u |-> v], m, u) =>
                   u \in busers'[m]
  <2>1. CASE m = a /\ u = v
    BY <2>1 DEF Removal, IsJoin
  <2>2. CASE ~(m = a /\ u = v)
    BY <2>2 DEF AttInv, TypeOK, BackendLeave, IsJoin
  <2>. QED  BY <2>1, <2>2
<1>. QED  BY <1>1, <1>2, <1>3, BackendPublishInv DEF BackendLeave, EventTypes

(* The gateway's insert writes the row with no attendees, or nothing. *)
LEMMA GatewayRecordInv ==
    ASSUME AttInv, NEW a \in Meetings, GatewayRecord(a)
    PROVE  AttInv'
<1>1. TypeOK'
  <2>1. recorded' \in [Meetings -> BOOLEAN]
    BY DEF AttInv, TypeOK, GatewayRecord
  <2>2. CASE /\ row' = [row EXCEPT ![a] = TRUE]
             /\ running' = [running EXCEPT ![a] = FALSE]
             /\ attendees' = [attendees EXCEPT ![a] = <<>>]
    BY <2>1, <2>2 DEF AttInv, TypeOK, GatewayRecord
  <2>3. CASE UNCHANGED <<row, running, attendees>>
    BY <2>1, <2>3 DEF AttInv, TypeOK, GatewayRecord
  <2>. QED  BY <2>2, <2>3 DEF GatewayRecord
<1>2. ChanUsers(chan')
  BY DEF AttInv, GatewayRecord
<1>3. ASSUME NEW m \in Meetings, NEW u \in Users
      PROVE  CoverInv(m, u)'
  <2>1. JoinsCovered(chan, busers[m], m, u)'
    BY DEF AttInv, CoverInv, GatewayRecord
  <2> SUFFICES StaleCovered(m, u)'
    BY <2>1 DEF CoverInv
  <2>2. CASE m = a /\ attendees'[a] = <<>>
    <3>1. AttendeeSet(attendees'[m]) = {}
      BY <2>2 DEF AttendeeSet
    <3>. QED  BY <3>1 DEF StaleCovered
  <2>3. CASE ~(m = a /\ attendees'[a] = <<>>)
    <3>1. /\ row'[m] = row[m] /\ attendees'[m] = attendees[m]
          /\ UNCHANGED <<hpc, cur, chan, busers>>
      BY <2>3 DEF AttInv, TypeOK, GatewayRecord
    <3>. QED  BY <3>1 DEF AttInv, CoverInv, StaleCovered, AwaitingEnd
  <2>. QED  BY <2>1, <2>2, <2>3 DEF CoverInv
<1>. QED  BY <1>1, <1>2, <1>3 DEF AttInv

(* The row found: onMeetingEnded clears exactly the attendees the stale   *)
(* cover of an awaited end was counting on.                                *)
LEMMA AwaitFoundInv ==
    ASSUME AttInv, AwaitFound
    PROVE  AttInv'
<1>1. TypeOK'
  <2>1. CASE cur.type = "MeetingCreated"
    BY <2>1 DEF AttInv, TypeOK, AwaitFound
  <2>2. CASE cur.type # "MeetingCreated"
    <3>1. /\ running' = [running EXCEPT ![cur.m] = FALSE]
          /\ attendees' = [attendees EXCEPT ![cur.m] = <<>>]
      BY <2>2 DEF AwaitFound
    <3>2. cur.m \in Meetings /\ attendees \in [Meetings -> Seq(Users)]
          /\ running \in [Meetings -> BOOLEAN]
      BY DEF AttInv, TypeOK, Events
    <3>3. attendees' \in [Meetings -> Seq(Users)]
          /\ running' \in [Meetings -> BOOLEAN]
      BY <3>1, <3>2
    <3>. QED  BY <3>3 DEF AttInv, TypeOK, AwaitFound
  <2>. QED  BY <2>1, <2>2
<1>2. ChanUsers(chan')
  BY DEF AttInv, AwaitFound
<1>3. ASSUME NEW m \in Meetings, NEW u \in Users
      PROVE  CoverInv(m, u)'
  <2>1. JoinsCovered(chan, busers[m], m, u)'
    BY DEF AttInv, CoverInv, AwaitFound
  <2> SUFFICES StaleCovered(m, u)'
    BY <2>1 DEF CoverInv
  <2>2. CASE cur.type # "MeetingCreated" /\ cur.m = m
    <3>1. attendees'[m] = <<>>
      BY <2>2 DEF AttInv, TypeOK, AwaitFound
    <3>2. AttendeeSet(attendees'[m]) = {}
      BY <3>1 DEF AttendeeSet
    <3>. QED  BY <3>2 DEF StaleCovered
  <2>3. CASE ~(cur.type # "MeetingCreated" /\ cur.m = m)
    <3>1. /\ attendees'[m] = attendees[m] /\ ~AwaitingEnd(m)
          /\ UNCHANGED <<row, chan, busers>>
      BY <2>3 DEF AttInv, TypeOK, AwaitFound, AwaitingEnd
    <3>2. hpc # "crashed"
      BY DEF AwaitFound
    <3>. QED  BY <3>1, <3>2 DEF AttInv, CoverInv, StaleCovered
  <2>. QED  BY <2>1, <2>2, <2>3 DEF CoverInv
<1>. QED  BY <1>1, <1>2, <1>3 DEF AttInv

(* No row within the deadline: a dropped create leaves the handler idle, *)
(* an awaited end crashes it.                                              *)
LEMMA AwaitTimeoutInv ==
    ASSUME AttInv, AwaitTimeout
    PROVE  AttInv'
<1>1. TypeOK'
  BY DEF AttInv, TypeOK, AwaitTimeout
<1>2. ChanUsers(chan')
  BY DEF AttInv, AwaitTimeout
<1>3. ASSUME NEW m \in Meetings, NEW u \in Users
      PROVE  CoverInv(m, u)'
  <2>1. JoinsCovered(chan, busers[m], m, u)'
    BY DEF AttInv, CoverInv, AwaitTimeout
  <2> SUFFICES StaleCovered(m, u)'
    BY <2>1 DEF CoverInv
  <2>2. CASE cur.type = "MeetingCreated"
    <3>1. /\ ~AwaitingEnd(m) /\ hpc # "crashed"
          /\ UNCHANGED <<row, attendees, chan, busers>>
      BY <2>2 DEF AwaitTimeout, AwaitingEnd
    <3>. QED  BY <3>1 DEF AttInv, CoverInv, StaleCovered
  <2>3. CASE cur.type # "MeetingCreated"
    <3>1. hpc' = "crashed"
      BY <2>3 DEF AwaitTimeout
    <3>. QED  BY <3>1 DEF StaleCovered
  <2>. QED  BY <2>1, <2>2, <2>3 DEF CoverInv
<1>. QED  BY <1>1, <1>2, <1>3 DEF AttInv

(* The users of a list with one more attendee. *)
LEMMA AttendeeSetAppend ==
    ASSUME NEW S, NEW s \in Seq(S), NEW v \in S
    PROVE  AttendeeSet(Append(s, v)) = AttendeeSet(s) \cup {v}
<1>1. AttendeeSet(Append(s, v)) = {Append(s, v)[k] : k \in 1..Len(s) + 1}
  BY DEF AttendeeSet
<1>2. AttendeeSet(s) = {s[k] : k \in 1..Len(s)}
  BY DEF AttendeeSet
<1>3. ASSUME NEW k \in 1..Len(s) + 1
      PROVE  Append(s, v)[k] \in AttendeeSet(s) \cup {v}
  BY <1>2
<1>4. ASSUME NEW k \in 1..Len(s)
      PROVE  s[k] \in AttendeeSet(Append(s, v))
  <2>1. Append(s, v)[k] = s[k]
    OBVIOUS
  <2>. QED  BY <1>1, <2>1
<1>5. v \in AttendeeSet(Append(s, v))
  <2>1. Append(s, v)[Len(s) + 1] = v
    OBVIOUS
  <2>. QED  BY <1>1, <2>1
<1>. QED  BY <1>1, <1>2, <1>3, <1>4, <1>5, Zenon

(* What Dispatch leaves of the stream and of the handler's registers. *)
LEMMA DispatchFrame ==
    ASSUME AttInv, Dispatch
    PROVE  /\ chan \in Seq(Events) /\ chan # <<>>
           /\ Head(chan) \in Events /\ Head(chan) = chan[1]
           /\ chan' \in {Tail(chan), chan}
           /\ chan' \in Seq(Events) /\ ChanUsers(chan')
           /\ dups' \in 0..MaxDups
           /\ HandleEvent(Head(chan))
           /\ hpc = "idle"
           /\ UNCHANGED <<bstate, busers, recorded, sent>>
<1>1. chan \in Seq(Events) /\ chan # <<>> /\ ChanUsers(chan)
  BY DEF AttInv, TypeOK, Dispatch
<1>2. chan' \in {Tail(chan), chan}
  BY DEF Dispatch
<1>3. ChanUsers(chan')
  BY <1>1, <1>2, ChanUsersTail
<1>4. dups' \in 0..MaxDups
  <2>1. dups \in 0..MaxDups /\ MaxDups \in Nat
    BY EventAssumption DEF AttInv, TypeOK
  <2>2. CASE dups' = dups
    BY <2>1, <2>2
  <2>3. CASE dups < MaxDups /\ dups' = dups + 1
    BY <2>1, <2>3
  <2>. QED  BY <2>2, <2>3 DEF Dispatch
<1>. QED  BY <1>1, <1>2, <1>3, <1>4 DEF Dispatch

(* Dispatch keeps the replica typed: a join appends a user the stream     *)
(* names, the filter of a leave keeps a list of users.                     *)
LEMMA DispatchType ==
    ASSUME AttInv, Dispatch
    PROVE  TypeOK'
<1> DEFINE h == Head(chan)
<1>1. /\ chan \in Seq(Events) /\ chan # <<>> /\ h \in Events /\ h = chan[1]
      /\ chan' \in Seq(Events) /\ dups' \in 0..MaxDups /\ HandleEvent(h)
      /\ UNCHANGED <<bstate, busers, recorded, sent>>
  BY DispatchFrame
<1>2. /\ attendees \in [Meetings -> Seq(Users)] /\ row \in [Meetings -> BOOLEAN]
      /\ h.m \in Meetings
  BY <1>1 DEF AttInv, TypeOK, Events
<1>3. /\ attendees' \in [Meetings -> Seq(Users)]
      /\ row' \in [Meetings -> BOOLEAN]
      /\ running' = running
      /\ hpc' \in {"idle", "await", "crashed"}
      /\ cur' \in Events
  <2>1. CASE h.type = "UserJoinedMeeting"
    <3>1. h.u \in Users
      BY <1>1, <2>1 DEF AttInv, ChanUsers
    <3>2. /\ attendees' = [attendees EXCEPT ![h.m] =
                             IF row[h.m] THEN Append(@, h.u) ELSE @]
          /\ UNCHANGED <<row, running, hpc, cur>>
      BY <1>1, <2>1 DEF HandleEvent
    <3>. QED  BY <1>2, <3>1, <3>2 DEF AttInv, TypeOK
  <2>2. CASE h.type = "UserLeftMeeting"
    <3>1. WithoutUser(attendees[h.m], h.u) \in Seq(Users)
      BY <1>2, WithoutUserType
    <3>2. /\ attendees' = [attendees EXCEPT ![h.m] =
                             IF row[h.m] THEN WithoutUser(@, h.u) ELSE @]
          /\ UNCHANGED <<row, running, hpc, cur>>
      BY <1>1, <2>2 DEF HandleEvent
    <3>. QED  BY <1>2, <3>1, <3>2 DEF AttInv, TypeOK
  <2>3. CASE h.type = "MeetingDestroyed"
    <3>1. /\ row' = [row EXCEPT ![h.m] = FALSE]
          /\ UNCHANGED <<running, attendees, hpc, cur>>
      BY <1>1, <2>3 DEF HandleEvent
    <3>. QED  BY <1>2, <3>1 DEF AttInv, TypeOK
  <2>4. CASE h.type \in {"MeetingCreated", "MeetingEnded"}
    <3>1. /\ hpc' = "await" /\ cur' = h
          /\ UNCHANGED <<row, running, attendees>>
      BY <1>1, <2>4 DEF HandleEvent
    <3>. QED  BY <1>1, <1>2, <3>1
  <2>. QED  BY <1>1, <2>1, <2>2, <2>3, <2>4 DEF Events, EventTypes
<1>. QED  BY <1>1, <1>3 DEF AttInv, TypeOK

(* Handling the head event h of the stream, the agent is idle, so a stale *)
(* attendee u of m was covered by a removal in the stream.  Either h is a *)
(* join of u, covered by a later removal, or h ends m and the handler now *)
(* awaits that end, or h is not a removal for u and u was stale already,  *)
(* so the removal lies behind h.                                           *)
LEMMA DispatchStale ==
    ASSUME AttInv, Dispatch, NEW m \in Meetings, NEW u \in Users,
           hpc' # "crashed", row'[m], u \in AttendeeSet(attendees'[m]),
           u \notin busers'[m]
    PROVE  AwaitingEnd(m)' \/ RemovalIn(chan, m, u, 1)
<1> DEFINE h == Head(chan)
<1>1. /\ chan \in Seq(Events) /\ chan # <<>> /\ h \in Events /\ h = chan[1]
      /\ HandleEvent(h) /\ hpc = "idle"
      /\ UNCHANGED <<bstate, busers, recorded, sent>>
  BY DispatchFrame
<1>2. /\ attendees \in [Meetings -> Seq(Users)] /\ row \in [Meetings -> BOOLEAN]
      /\ h.m \in Meetings /\ CoverInv(m, u)
  BY <1>1 DEF AttInv, TypeOK, Events
<1>3. CASE IsJoin(h, m, u)
  <2>1. 1 \in 1..Len(chan) /\ IsJoin(chan[1], m, u) /\ u \notin busers[m]
    BY <1>1, <1>3
  <2>. QED  BY <1>2, <2>1 DEF CoverInv, JoinsCovered
<1>4. CASE h.type = "MeetingEnded" /\ h.m = m
  <2>1. hpc' = "await" /\ cur' = h
    BY <1>1, <1>4 DEF HandleEvent
  <2>. QED  BY <1>4, <2>1 DEF AwaitingEnd
<1>5. CASE ~IsJoin(h, m, u) /\ ~(h.type = "MeetingEnded" /\ h.m = m)
  <2>1. row[m]
    <3>1. CASE h.type = "MeetingDestroyed"
      <4>1. row' = [row EXCEPT ![h.m] = FALSE]
        BY <1>1, <3>1 DEF HandleEvent
      <4>. QED  BY <1>2, <4>1
    <3>2. CASE h.type # "MeetingDestroyed"
      BY <1>1, <3>2 DEF HandleEvent
    <3>. QED  BY <3>1, <3>2
  <2>2. u \in AttendeeSet(attendees[m]) /\ ~Removal(h, m, u)
    <3>1. CASE h.type = "UserJoinedMeeting"
      <4>1. attendees' = [attendees EXCEPT ![h.m] =
                            IF row[h.m] THEN Append(@, h.u) ELSE @]
        BY <1>1, <3>1 DEF HandleEvent
      <4>2. CASE h.m = m
        <5>1. attendees'[m] = Append(attendees[m], h.u) /\ h.u # u
          BY <1>2, <1>5, <2>1, <3>1, <4>1, <4>2 DEF IsJoin
        <5>2. h.u \in Users
          BY <1>1, <3>1 DEF AttInv, ChanUsers
        <5>3. attendees[m] \in Seq(Users)
          BY <1>2
        <5>4. AttendeeSet(attendees'[m]) = AttendeeSet(attendees[m]) \cup {h.u}
          BY <5>1, <5>2, <5>3, AttendeeSetAppend
        <5>. QED  BY <3>1, <5>1, <5>4 DEF Removal
      <4>3. CASE h.m # m
        BY <1>2, <3>1, <4>1, <4>3 DEF Removal
      <4>. QED  BY <4>2, <4>3
    <3>2. CASE h.type = "UserLeftMeeting"
      <4>1. attendees' = [attendees EXCEPT ![h.m] =
                            IF row[h.m] THEN WithoutUser(@, h.u) ELSE @]
        BY <1>1, <3>2 DEF HandleEvent
      <4>2. CASE h.m = m
        <5>1. attendees'[m] = WithoutUser(attendees[m], h.u)
          BY <1>2, <2>1, <4>1, <4>2
        <5>2. AttendeeSet(attendees'[m]) \subseteq AttendeeSet(attendees[m]) \ {h.u}
          BY <1>2, <5>1, WithoutUserType
        <5>. QED  BY <3>2, <4>2, <5>2 DEF Removal
      <4>3. CASE h.m # m
        BY <1>2, <3>2, <4>1, <4>3 DEF Removal
      <4>. QED  BY <4>2, <4>3
    <3>3. CASE h.type \in {"MeetingDestroyed", "MeetingCreated", "MeetingEnded"}
      <4>1. attendees' = attendees
        BY <1>1, <3>3 DEF HandleEvent
      <4>. QED  BY <1>5, <3>3, <4>1 DEF Removal
    <3>. QED  BY <1>1, <3>1, <3>2, <3>3 DEF Events, EventTypes
  <2>3. RemovalIn(chan, m, u, 0)
    <3>1. ~AwaitingEnd(m)
      BY <1>1 DEF AwaitingEnd
    <3>. QED  BY <1>1, <1>2, <2>1, <2>2, <3>1 DEF CoverInv, StaleCovered
  <2>. QED  BY <1>1, <2>2, <2>3, RemovalInHead
<1>. QED  BY <1>3, <1>4, <1>5

(* Dispatch keeps every cover: the removal behind the head is still in   *)
(* the stream whether the head is taken off or redelivered.               *)
LEMMA DispatchCover ==
    ASSUME AttInv, Dispatch, NEW m \in Meetings, NEW u \in Users
    PROVE  CoverInv(m, u)'
<1>1. /\ chan \in Seq(Events) /\ chan # <<>>
      /\ chan' \in {Tail(chan), chan}
      /\ UNCHANGED busers
  BY DispatchFrame
<1>2. JoinsCovered(chan', busers'[m], m, u)
  <2>1. JoinsCovered(chan, busers[m], m, u)
    BY DEF AttInv, CoverInv
  <2>. QED  BY <1>1, <2>1, JoinsCoveredTail
<1>3. StaleCovered(m, u)'
  <2> SUFFICES ASSUME hpc' # "crashed", row'[m],
                      u \in AttendeeSet(attendees'[m]), u \notin busers'[m]
               PROVE  AwaitingEnd(m)' \/ RemovalIn(chan', m, u, 0)
    BY DEF StaleCovered
  <2>1. AwaitingEnd(m)' \/ RemovalIn(chan, m, u, 1)
    BY DispatchStale
  <2>2. RemovalIn(chan, m, u, 1) => RemovalIn(Tail(chan), m, u, 0)
    BY <1>1, RemovalInTail
  <2>3. RemovalIn(chan, m, u, 1) => RemovalIn(chan, m, u, 0)
    BY <1>1, RemovalInLower
  <2>. QED  BY <1>1, <2>1, <2>2, <2>3
<1>. QED  BY <1>2, <1>3 DEF CoverInv

LEMMA DispatchInv ==
    ASSUME AttInv, Dispatch
    PROVE  AttInv'
BY DispatchFrame, DispatchType, DispatchCover DEF AttInv

-----------------------------------------------------------------------------
LEMMA StutterInv ==
    ASSUME AttInv, UNCHANGED vars
    PROVE  AttInv'
<1>1. TypeOK' /\ ChanUsers(chan')
  BY DEF AttInv, TypeOK, ChanUsers, vars
<1>2. ASSUME NEW m \in Meetings, NEW u \in Users
      PROVE  CoverInv(m, u)'
  BY DEF AttInv, CoverInv, StaleCovered, JoinsCovered, AwaitingEnd, vars
<1>. QED  BY <1>1, <1>2 DEF AttInv

LEMMA NextAttInv ==
    AttInv /\ [Next]_vars => AttInv'
<1> SUFFICES ASSUME AttInv, [Next]_vars PROVE AttInv'
  OBVIOUS
<1>1. ASSUME NEW a \in Meetings,
             \/ BackendCreate(a) \/ GatewayRecord(a)
             \/ BackendEnd(a) \/ BackendDestroy(a)
             \/ \E v \in Users : BackendJoin(a, v) \/ BackendLeave(a, v)
      PROVE  AttInv'
  BY <1>1, BackendCreateInv, GatewayRecordInv, BackendEndInv,
     BackendDestroyInv, BackendJoinInv, BackendLeaveInv
<1>. QED  BY <1>1, DispatchInv, AwaitFoundInv, AwaitTimeoutInv, StutterInv
          DEF Next

(* Once the agent has caught up, a stale attendee would need a removal in *)
(* an empty stream or an end being awaited by an idle handler.            *)
LEMMA AttInvSound ==
    AttInv => AttendeesSound
<1> SUFFICES ASSUME AttInv, Quiescent, NEW m \in Meetings, row[m],
                    NEW x \in AttendeeSet(attendees[m])
             PROVE  x \in busers[m]
  BY DEF AttendeesSound
<1>1. x \in Users
  BY DEF AttInv, TypeOK, AttendeeSet
<1>2. ~AwaitingEnd(m) /\ ~RemovalIn(chan, m, x, 0)
  BY DEF Quiescent, AwaitingEnd, RemovalIn
<1>. QED  BY <1>1, <1>2 DEF AttInv, CoverInv, StaleCovered, Quiescent

(* EventHandler's variables keep their types in every reachable state: in *)
(* particular the filter of onUserLeftMeeting leaves a list of user ids.   *)
THEOREM TypeCorrect == Spec => []TypeOK
<1>1. Init => AttInv
  BY InitAttInv
<1>2. AttInv /\ [Next]_vars => AttInv'
  BY NextAttInv
<1>3. AttInv => TypeOK
  BY DEF AttInv
<1>. QED  BY <1>1, <1>2, <1>3, PTL DEF Spec

(* AttendeesSound for every number of meetings, users, events and          *)
(* redeliveries: once the agent has handled every event, the attendee list *)
(* of each recorded meeting names only users in the meeting on the backend, *)
(* whatever order the joins, leaves, ends and the gateway's insert raced   *)
(* in (handler.go's onUserJoinedMeeting, onUserLeftMeeting, onMeetingEnded). *)
THEOREM AttendeesSoundProved == Spec => []AttendeesSound
<1>1. Init => AttInv
  BY InitAttInv
<1>2. AttInv /\ [Next]_vars => AttInv'
  BY NextAttInv
<1>3. AttInv => AttendeesSound
  BY AttInvSound
<1>. QED  BY <1>1, <1>2, <1>3, PTL DEF Spec
=============================================================================
